---- MODULE Spec2Model ----
(***************************************************************************)
(* Model of the log-ingestion core of Emerald's Killfeed:                  *)
(*   - IntelligentConnectionParser (bot/parsers/intelligent_connection_    *)
(*     parser.py): per-player connection state machine and live counters   *)
(*   - LogParser (bot/parsers/log_parser.py): file-state tracking and the  *)
(*     ingestion entry points parse_server_logs / parse_dev_logs           *)
(***************************************************************************)
EXTENDS Integers, Sequences, FiniteSets, TLC

(***************************************************************************)
(* Bounds of the model                                                     *)
(***************************************************************************)
\* calls of parse_connection_event in one behaviour
MaxCalls == 3
\* the clock advances by TickSeconds up to MaxSecond seconds into a day,
\* and to that second of the next day up to MaxDays days
TickSeconds == 30
MaxSecond == 30
MaxDays == 1
\* lines the log file can hold, and ingestion runs in one behaviour
MaxFileLines == 2
MaxRuns == 2
\* sizes in bytes and stored line counts that _detect_file_reset is tried on
MaxSize == 12
\* the most lines the deathlog CSV file gets
MaxCsvLines == 2
\* the calls of queue_embed, the calls of the short runs that are checked
\* for progress, and the tasks of _process_channel_queue alive at a time
MaxQueued == 102
MaxFew == 12
MaxTasks == 2
MaxStoredLines == 11

\* player ids (the eosid captured from a line) and display names
Players == {"a1", "b2"}
Names == {"Bob"}
\* playersmaxcount values seen in configuration lines
MaxPlayerValues == {60}
\* one configured server of one guild, reached over one SFTP host
Servers == {"s1"}
\* the callers of parse_server_logs: the scheduler job and a slash command
Tasks == {"scheduled", "manual"}
GuildId == "g1"
SftpHost == "h1"

\* Python's None, for player_name and last_event_type
None == "None"

(***************************************************************************)
(* Program constants                                                       *)
(***************************************************************************)
\* is_duplicate_event(..., time_threshold: float = 30.0)
time_threshold == 30
\* cleanup_old_states(max_age_hours=24), called with 24 by process_log_event
max_age_hours == 24
\* self.server_counts[server_key].get('max_players', 50)
default_max_players == 50
\* seconds of a day
DaySeconds == 86400
\* is_cold_start = total_lines > 1000
cold_start_threshold == 1000
\* process_log_event sweeps old records when an event is more than an hour
\* after the last sweep
cleanup_interval == 3600
\* _detect_file_reset looks at current_lines[-min(50, len(current_lines))]
tail_window == 50
\* get_sftp_connection: for attempt in range(3), and wait_for(..., timeout=30)
connect_attempts == 3
connect_timeout == 30
\* self.max_queue_size = 100 and self.batch_size = 10 of BatchSender
max_queue_size == 100
batch_size == 10
\* _get_file_hash reads the first 1024 bytes
hash_bytes == 1024

VARIABLES
    now,            \* datetime.now(timezone.utc), in seconds
    channels,       \* guild_config['channels']: the channel kinds configured
    player_states,  \* connection_parser.player_states: key -> id -> record
    server_counts,  \* connection_parser.server_counts: key -> dict
    notifications,  \* the embeds handed to a channel, in order
    voice_label,    \* key -> the counts last written to the voice channel
    calls,          \* number of calls of parse_connection_event so far
    dev_mode,       \* bot.dev_mode
    log_file,       \* the lines of Deadside.log, as the server wrote them
    file_states,    \* log_parser.file_states: key -> stored file state
    server_status,  \* log_parser.server_status: key -> dict
    last_cleanup,   \* log_parser._last_cleanup, -1 while the attribute is unset
    runs,           \* number of ingestion runs so far
    reset_size,     \* _detect_file_reset: the current_size it is called with
    reset_detected, \* _detect_file_reset: what the call returned, if made
    intelligent_parser, \* log_parser.intelligent_parser: its dicts, as a record
    tasks,          \* the calls of parse_server_logs in progress, by caller
    parser_states,  \* db_manager.parser_states: server_id -> saved document
    csv_file,       \* the lines of the most recent deathlog CSV file
    parsed_lines,   \* killfeed_parser.parsed_lines: key -> set of lines
    kill_events,    \* db_manager.kill_events: the documents, in order
    pvp_data,       \* db_manager.pvp_data: player_name -> document
    lifecycle_parser, \* a ConnectionLifecycleParser: its dicts, as a record
    sftp_pool,      \* log_parser.sftp_pool: pool_key -> the connection's state
    sftp_call,      \* the call of get_sftp_connection: where it is, its locals
    batch_sender,   \* a BatchSender: message_queues and processing_channels
    batch_tasks,    \* the _process_channel_queue tasks created and not ended
    last_sent       \* channel_id -> the last message given to channel.send

cpvars == <<player_states, server_counts, notifications, voice_label>>
lpvars == <<file_states, server_status, last_cleanup, intelligent_parser>>
filevars == <<dev_mode, log_file, runs>>
resetvars == <<reset_size, reset_detected>>
killvars == <<csv_file, parsed_lines, kill_events, pvp_data>>
sftpvars == <<sftp_pool, sftp_call>>
batchvars == <<batch_sender, batch_tasks, last_sent>>
vars == <<now, channels, player_states, server_counts, notifications,
          voice_label, calls, dev_mode, log_file, file_states,
          server_status, last_cleanup, runs, reset_size, reset_detected,
          intelligent_parser, tasks, parser_states, csv_file, parsed_lines,
          kill_events, pvp_data, lifecycle_parser, sftp_pool, sftp_call,
          batch_sender, batch_tasks, last_sent>>

EmptyMap == [x \in {} |-> x]

\* f"{guild_id}_{server_id}"
get_server_status_key(server_id) == <<GuildId, server_id>>

ServerKeys == {get_server_status_key(s) : s \in Servers}

(***************************************************************************)
(* Log lines.  A line is represented by the shape it has (the sample       *)
(* lines of verify_regex_patterns) and the groups the patterns capture.    *)
(***************************************************************************)
Line(kind, id, name, max) == [kind |-> kind, id |-> id, name |-> name, max |-> max]

IdLineKinds == {"beacon_join", "player_joined", "disconnect", "disconnect_alt",
                "beacon_disconnect"}

Lines ==
    {Line("queue_join", p, n, 0) : p \in Players, n \in Names}
    \cup {Line(k, p, None, 0) : k \in IdLineKinds, p \in Players}
    \cup {Line("server_max_players", None, None, m) : m \in MaxPlayerValues}
    \cup {Line("mission_ready", None, None, 0), Line("unmatched", None, None, 0)}

\* self.patterns[pattern].search(line)
patterns_search(pattern, line) == line.kind = pattern

(***************************************************************************)
(* PlayerConnectionState                                                   *)
(***************************************************************************)
PlayerConnectionState(player_id, player_name, t) ==
    [player_id |-> player_id,
     player_name |-> player_name,
     current_state |-> "OFFLINE",
     last_event_time |-> t,
     last_event_type |-> None,
     state_transitions |-> <<>>]

\* a table that lets a joined player queue again
valid_transitions_requeue(state) ==
    CASE state = "OFFLINE" -> {"QUEUED", "CONNECTING", "JOINED"}
      [] state = "QUEUED" -> {"CONNECTING", "JOINED", "DISCONNECTED"}
      [] state = "CONNECTING" -> {"JOINED", "DISCONNECTED"}
      [] state = "JOINED" -> {"DISCONNECTED", "QUEUED"}
      [] state = "DISCONNECTED" -> {"QUEUED", "CONNECTING", "JOINED", "OFFLINE"}
      [] OTHER -> {}

valid_transitions(state) ==
    CASE state = "OFFLINE" -> {"QUEUED", "CONNECTING", "JOINED"}
      [] state = "QUEUED" -> {"CONNECTING", "JOINED", "DISCONNECTED"}
      [] state = "CONNECTING" -> {"JOINED", "DISCONNECTED"}
      [] state = "JOINED" -> {"DISCONNECTED"}
      [] state = "DISCONNECTED" -> {"QUEUED", "CONNECTING", "JOINED", "OFFLINE"}
      [] OTHER -> {}

\* a check that insists on the queue step before a join
can_transition_to_strict(ps, new_state) ==
    /\ new_state \in valid_transitions(ps.current_state)
    /\ ~(ps.current_state = "OFFLINE" /\ new_state = "JOINED")

can_transition_to(ps, new_state) ==
    new_state \in valid_transitions(ps.current_state)

\* a check that never finds a duplicate
is_duplicate_event_never(ps, event_type, t) == FALSE

is_duplicate_event(ps, event_type, t) ==
    ps.last_event_type = event_type /\ (t - ps.last_event_time) < time_threshold

\* a transition that stamps the record even when it is refused
transition_to_touch(ps, new_state, event_type, t) ==
    IF is_duplicate_event(ps, event_type, t)
    THEN [ok |-> FALSE, ps |-> ps, diag |-> "duplicate"]
    ELSE IF ~can_transition_to(ps, new_state)
    THEN [ok |-> FALSE,
          ps |-> [ps EXCEPT !.last_event_time = t,
                            !.last_event_type = event_type],
          diag |-> "invalid"]
    ELSE [ok |-> TRUE,
          ps |-> [ps EXCEPT
                    !.state_transitions =
                        Append(@, [from_state |-> ps.current_state,
                                   to_state |-> new_state,
                                   event_type |-> event_type,
                                   timestamp |-> t]),
                    !.current_state = new_state,
                    !.last_event_time = t,
                    !.last_event_type = event_type],
          diag |-> "applied"]

\* a transition that restarts the window when it suppresses a duplicate
transition_to_refresh(ps, new_state, event_type, t) ==
    IF is_duplicate_event(ps, event_type, t)
    THEN [ok |-> FALSE, ps |-> [ps EXCEPT !.last_event_time = t],
          diag |-> "duplicate"]
    ELSE IF ~can_transition_to(ps, new_state)
    THEN [ok |-> FALSE, ps |-> ps, diag |-> "invalid"]
    ELSE [ok |-> TRUE,
          ps |-> [ps EXCEPT
                    !.state_transitions =
                        Append(@, [from_state |-> ps.current_state,
                                   to_state |-> new_state,
                                   event_type |-> event_type,
                                   timestamp |-> t]),
                    !.current_state = new_state,
                    !.last_event_time = t,
                    !.last_event_type = event_type],
          diag |-> "applied"]

\* returns the record after the call, whether the transition was applied,
\* and the diagnostic that was logged
transition_to(ps, new_state, event_type, t) ==
    IF is_duplicate_event(ps, event_type, t)
    THEN [ok |-> FALSE, ps |-> ps, diag |-> "duplicate"]
    ELSE IF ~can_transition_to(ps, new_state)
    THEN [ok |-> FALSE, ps |-> ps, diag |-> "invalid"]
    ELSE [ok |-> TRUE,
          ps |-> [ps EXCEPT
                    !.state_transitions =
                        Append(@, [from_state |-> ps.current_state,
                                   to_state |-> new_state,
                                   event_type |-> event_type,
                                   timestamp |-> t]),
                    !.current_state = new_state,
                    !.last_event_time = t,
                    !.last_event_type = event_type],
          diag |-> "applied"]

(***************************************************************************)
(* IntelligentConnectionParser.  Its state is passed as a record cp with   *)
(* the fields player_states, server_counts, notifications, voice_label, so *)
(* that one call can be applied to every line of an ingestion window.      *)
(***************************************************************************)
CP == [player_states |-> player_states, server_counts |-> server_counts,
       notifications |-> notifications, voice_label |-> voice_label]

\* self.player_names[server_key] = {} is written here too and never read
initialize_server_tracking(cp, server_key) ==
    [cp EXCEPT
        !.player_states =
            IF server_key \in DOMAIN @ THEN @ ELSE @ @@ (server_key :> EmptyMap),
        !.server_counts =
            IF server_key \in DOMAIN @ THEN @
            ELSE @ @@ (server_key :> [queue_count |-> 0, player_count |-> 0])]

\* a lookup that drops the name captured by the line
get_or_create_player_state_nameless(states, player_id, player_name, t) ==
    IF player_id \notin DOMAIN states
    THEN states @@ (player_id :> PlayerConnectionState(player_id, None, t))
    ELSE states

\* states is self.player_states[server_key]
get_or_create_player_state(states, player_id, player_name, t) ==
    IF player_id \notin DOMAIN states
    THEN states @@ (player_id :> PlayerConnectionState(player_id, player_name, t))
    ELSE IF player_name # None /\ states[player_id].player_name = None
    THEN [states EXCEPT ![player_id].player_name = player_name]
    ELSE states

\* the voice channel is renamed only when guild_config['channels'] has a
\* 'playercountvc' entry; the label shows player_count/max_players and the
\* queue_count
update_voice_channels(cp, server_key, player_count, queue_count, ch) ==
    IF "playercountvc" \notin ch THEN cp
    ELSE LET counts == cp.server_counts[server_key]
             max_players == IF "max_players" \in DOMAIN counts
                            THEN counts.max_players ELSE default_max_players
         IN [cp EXCEPT !.voice_label =
                (server_key :> [player_count |-> player_count,
                                max_players |-> max_players,
                                queue_count |-> queue_count]) @@ @]

CountInState(states, state) ==
    Cardinality({p \in DOMAIN states : states[p].current_state = state})

update_counts(cp, server_key, ch) ==
    LET c0 == initialize_server_tracking(cp, server_key)
        queue_count == CountInState(c0.player_states[server_key], "QUEUED")
        player_count == CountInState(c0.player_states[server_key], "JOINED")
        c1 == [c0 EXCEPT !.server_counts[server_key].queue_count = queue_count,
                         !.server_counts[server_key].player_count = player_count]
    IN update_voice_channels(c1, server_key, player_count, queue_count, ch)

\* a join embed that is queued without a display name
queue_join_embed_unnamed(cp, ps, server_key, ch) ==
    IF "connections" \notin ch THEN cp
    ELSE [cp EXCEPT !.notifications =
            Append(@, [type |-> "player_join",
                       connection_id |-> ps.player_name,
                       player_id |-> ps.player_id,
                       server_key |-> server_key])]

\* batch_sender.queue_embed is called only for a named player of a guild
\* with a 'connections' channel; embed_data holds connection_id, and
\* player_id and server_key record the player_state the call was made for
queue_join_embed(cp, ps, server_key, ch) ==
    IF ps.player_name = None THEN cp
    ELSE IF "connections" \notin ch THEN cp
    ELSE [cp EXCEPT !.notifications =
            Append(@, [type |-> "player_join",
                       connection_id |-> ps.player_name,
                       player_id |-> ps.player_id,
                       server_key |-> server_key])]

queue_leave_embed(cp, ps, server_key, ch) ==
    IF ps.player_name = None THEN cp
    ELSE IF "connections" \notin ch THEN cp
    ELSE [cp EXCEPT !.notifications =
            Append(@, [type |-> "player_leave",
                       connection_id |-> ps.player_name,
                       player_id |-> ps.player_id,
                       server_key |-> server_key])]

update_server_max_players(cp, server_key, max_players, ch) ==
    LET c0 == initialize_server_tracking(cp, server_key)
        c1 == [c0 EXCEPT !.server_counts[server_key] =
                  ("max_players" :> max_players) @@ @]
    IN update_voice_channels(c1, server_key,
                             c1.server_counts[server_key].player_count,
                             c1.server_counts[server_key].queue_count, ch)

\* a gate that lets every disconnect notify
should_create_embed_always(ps) == TRUE

\* a gate that lets a player who has joined at some time notify again
should_create_embed_ever(ps) ==
    \E i \in DOMAIN ps.state_transitions :
        ps.state_transitions[i].to_state = "JOINED"

\* should_create_embed = player_state.current_state == 'JOINED'
should_create_embed(ps) == ps.current_state = "JOINED"

\* the branch taken for a queue_join line
queue_join_branch(c0, line, server_key, t, ch) ==
    LET states == get_or_create_player_state(c0.player_states[server_key],
                                             line.id, line.name, t)
        r == transition_to(states[line.id], "QUEUED", "queue_join", t)
        c1 == [c0 EXCEPT !.player_states[server_key] =
                            [states EXCEPT ![line.id] = r.ps]]
    IN [cp |-> IF r.ok THEN update_counts(c1, server_key, ch) ELSE c1,
        diag |-> r.diag]

\* the branch taken for a beacon_join line: no recount after the transition
beacon_join_branch(c0, line, server_key, t, ch) ==
    LET states == get_or_create_player_state(c0.player_states[server_key],
                                             line.id, None, t)
        r == transition_to(states[line.id], "CONNECTING", "beacon_join", t)
        c1 == [c0 EXCEPT !.player_states[server_key] =
                            [states EXCEPT ![line.id] = r.ps]]
    IN [cp |-> c1, diag |-> r.diag]

\* the branch taken for a player_joined line; an unknown id gets a record
\* whose current_state is set to OFFLINE before the transition
player_joined_branch(c0, line, server_key, t, ch) ==
    LET known == line.id \in DOMAIN c0.player_states[server_key]
        states0 == get_or_create_player_state(c0.player_states[server_key],
                                              line.id, None, t)
        states == IF known THEN states0
                  ELSE [states0 EXCEPT ![line.id].current_state = "OFFLINE"]
        r == transition_to(states[line.id], "JOINED", "player_joined", t)
        c1 == [c0 EXCEPT !.player_states[server_key] =
                            [states EXCEPT ![line.id] = r.ps]]
    IN [cp |-> IF r.ok
               THEN queue_join_embed(update_counts(c1, server_key, ch),
                                     r.ps, server_key, ch)
               ELSE c1,
        diag |-> r.diag]

\* the branch shared by known players of disconnect and beacon_disconnect
disconnect_known(c0, line, event_type, server_key, t, ch) ==
    LET states == c0.player_states[server_key]
        embed == should_create_embed(states[line.id])
        r == transition_to(states[line.id], "DISCONNECTED", event_type, t)
        c1 == [c0 EXCEPT !.player_states[server_key] =
                            [states EXCEPT ![line.id] = r.ps]]
        c2 == update_counts(c1, server_key, ch)
    IN [cp |-> IF ~r.ok THEN c1
               ELSE IF embed THEN queue_leave_embed(c2, r.ps, server_key, ch)
               ELSE c2,
        diag |-> r.diag]

\* a disconnect of an unknown id creates a record that stays OFFLINE
disconnect_branch(c0, line, server_key, t, ch) ==
    IF line.id \in DOMAIN c0.player_states[server_key]
    THEN disconnect_known(c0, line, "disconnect", server_key, t, ch)
    ELSE [cp |-> [c0 EXCEPT !.player_states[server_key] =
                    get_or_create_player_state(@, line.id, None, t)],
          diag |-> "none"]

\* a beacon_disconnect of an unknown id is ignored
beacon_disconnect_branch(c0, line, server_key, t, ch) ==
    IF line.id \in DOMAIN c0.player_states[server_key]
    THEN disconnect_known(c0, line, "beacon_disconnect", server_key, t, ch)
    ELSE [cp |-> c0, diag |-> "none"]

parse_connection_event(cp, line, server_key, t, ch) ==
    LET c0 == initialize_server_tracking(cp, server_key)
    IN IF patterns_search("queue_join", line)
       THEN queue_join_branch(c0, line, server_key, t, ch)
       ELSE IF patterns_search("beacon_join", line)
       THEN beacon_join_branch(c0, line, server_key, t, ch)
       ELSE IF patterns_search("player_joined", line)
       THEN player_joined_branch(c0, line, server_key, t, ch)
       ELSE IF patterns_search("disconnect", line)
               \/ patterns_search("disconnect_alt", line)
       THEN disconnect_branch(c0, line, server_key, t, ch)
       ELSE IF patterns_search("beacon_disconnect", line)
       THEN beacon_disconnect_branch(c0, line, server_key, t, ch)
       ELSE IF patterns_search("server_max_players", line)
       THEN [cp |-> update_server_max_players(c0, server_key, line.max, ch),
             diag |-> "none"]
       ELSE [cp |-> c0, diag |-> "none"]

\* 1 when the call applied a transition
Applied(diag) == IF diag = "applied" THEN 1 ELSE 0

cleanup_old_states(cp, t) ==
    LET cutoff_time == t - (max_age_hours * 3600)
        old(ps) == ps.current_state = "DISCONNECTED"
                   /\ ps.last_event_time < cutoff_time
    IN [cp EXCEPT !.player_states =
            [k \in DOMAIN @ |->
                [p \in {q \in DOMAIN @[k] : ~old(@[k][q])} |-> @[k][p]]]]

\* a reset that clears the records and the counts of every server
reset_server_counts_all(cp, server_key) ==
    [cp EXCEPT
        !.player_states = [k \in DOMAIN @ |-> EmptyMap],
        !.server_counts =
            [k \in DOMAIN @ |-> [queue_count |-> 0, player_count |-> 0]]]

reset_server_counts(cp, server_key) ==
    [cp EXCEPT
        !.player_states =
            IF server_key \in DOMAIN @
            THEN [@ EXCEPT ![server_key] = EmptyMap] ELSE @,
        !.server_counts =
            IF server_key \in DOMAIN @
            THEN [@ EXCEPT ![server_key] = [queue_count |-> 0, player_count |-> 0]]
            ELSE @]

(***************************************************************************)
(* LogParser: the log file, the stored file states and the helpers of the  *)
(* ingestion entry points.  A text is kept as the lines that splitlines()  *)
(* returns for it together with its length in bytes.                       *)
(***************************************************************************)
\* a line that is the empty string
BlankLine == Line("blank", None, None, 0)

\* len(line.encode('utf-8')) for the shapes of lines of the model
line_bytes(line) ==
    CASE line.kind = "blank" -> 0
      [] line.kind = "unmatched" -> 4
      [] OTHER -> 9

\* the bytes of the lines of a text without their line ends, summed over
\* the lengths that occur in it
RECURSIVE sum_bytes(_, _)
sum_bytes(lines, lengths) ==
    IF lengths = {} THEN 0
    ELSE LET b == CHOOSE x \in lengths : TRUE
         IN b * Cardinality({i \in DOMAIN lines : line_bytes(lines[i]) = b})
            + sum_bytes(lines, lengths \ {b})

text_bytes(lines) ==
    sum_bytes(lines, {line_bytes(lines[i]) : i \in DOMAIN lines})

\* file_stat.size: every line of the file ends with a newline
file_size(lines) == text_bytes(lines) + Len(lines)

\* len('\n'.join(new_lines).encode('utf-8'))
joined_size(lines) ==
    text_bytes(lines) + (IF lines = <<>> THEN 0 ELSE Len(lines) - 1)

\* '\n'.join(new_lines).splitlines(): an empty last line is lost
joined_splitlines(lines) ==
    IF lines # <<>> /\ lines[Len(lines)] = BlankLine
    THEN SubSeq(lines, 1, Len(lines) - 1) ELSE lines

\* needle in hay, for strings: no line shape of the model occurs inside
\* another one, and the empty string occurs in every string
str_in(needle, hay) == needle = BlankLine \/ needle = hay

\* the LogParser state as a record, with the connection parser inside
LP == [cp |-> CP, file_states |-> file_states,
       server_status |-> server_status, last_cleanup |-> last_cleanup,
       intelligent_parser |-> intelligent_parser]

\* the key under which get_sftp_log_content stores the file state
sftp_server_key(server_id) == <<SftpHost, server_id>>

\* the write of file_states[server_key]; last_updated is not read anywhere
\* dict.get(key, default) of a stored state
state_get(state, key, default) ==
    IF key \in DOMAIN state THEN state[key] ELSE default

update_file_state(fs, server_key, size, line_count, last_line_content) ==
    (server_key :> [file_size |-> size, line_count |-> line_count,
                    last_line |-> last_line_content]) @@ fs

\* a detection that needs no smaller file to trust the last-line test
detect_file_reset_eager(fs, server_key, current_size, current_lines) ==
    IF server_key \notin DOMAIN fs THEN FALSE
    ELSE LET stored_size == fs[server_key].file_size
             stored_line_count == state_get(fs[server_key], "line_count", 0)
             stored_last_line == fs[server_key].last_line
             current_line_count == Len(current_lines)
             window == IF current_line_count < tail_window
                       THEN current_line_count ELSE tail_window
         IN \/ stored_size > 0 /\ 10 * current_size < stored_size
            \/ stored_line_count > 0 /\ 10 * current_line_count < stored_line_count
            \/ /\ stored_last_line # BlankLine
               /\ current_lines # <<>>
               /\ ~str_in(stored_last_line,
                          current_lines[current_line_count - window + 1])

\* current_size < stored_size * 0.1 is 10 * current_size < stored_size, and
\* current_size < stored_size * 0.8 is 10 * current_size < 8 * stored_size
detect_file_reset(fs, server_key, current_size, current_lines) ==
    IF server_key \notin DOMAIN fs THEN FALSE
    ELSE LET stored_size == fs[server_key].file_size
             stored_line_count == state_get(fs[server_key], "line_count", 0)
             stored_last_line == fs[server_key].last_line
             current_line_count == Len(current_lines)
             window == IF current_line_count < tail_window
                       THEN current_line_count ELSE tail_window
         IN \/ stored_size > 0 /\ 10 * current_size < stored_size
            \/ stored_line_count > 0 /\ 10 * current_line_count < stored_line_count
            \/ /\ stored_last_line # BlankLine
               /\ current_lines # <<>>
               /\ 10 * current_size < 8 * stored_size
               /\ ~str_in(stored_last_line,
                          current_lines[current_line_count - window + 1])

\* a resume point that keeps the stored line count through a reset
last_position_stale(fs, server_key, size, lines) ==
    LET stored == IF server_key \in DOMAIN fs
                  THEN state_get(fs[server_key], "line_count", 0) ELSE 0
    IN IF stored > Len(lines) THEN 0 ELSE stored

\* a resume point that trusts a stored line count past the end of the text
last_position_unguarded(fs, server_key, size, lines) ==
    IF detect_file_reset(fs, server_key, size, lines) THEN 0
    ELSE IF server_key \in DOMAIN fs
    THEN state_get(fs[server_key], "line_count", 0) ELSE 0

\* the line count to resume from: 0 after a reset or when it is past the end
last_position(fs, server_key, size, lines) ==
    IF detect_file_reset(fs, server_key, size, lines) THEN 0
    ELSE LET stored == IF server_key \in DOMAIN fs
                       THEN state_get(fs[server_key], "line_count", 0) ELSE 0
         IN IF stored > Len(lines) THEN 0 ELSE stored

\* a fetch that fails returns None: ok is FALSE
NoContent == [ok |-> FALSE, lines |-> <<>>, size |-> 0]

\* a fetch that drops the stored file states when it fails
get_sftp_log_content_forget(fs, server_id, file, fetched) ==
    IF ~fetched THEN [content |-> NoContent, file_states |-> EmptyMap]
    ELSE LET server_key == sftp_server_key(server_id)
             total_lines == Len(file)
             last_line_count == last_position(fs, server_key, file_size(file), file)
             new_lines == SubSeq(file, last_line_count + 1, total_lines)
         IN [content |-> [ok |-> TRUE, lines |-> joined_splitlines(new_lines),
                          size |-> joined_size(new_lines)],
             file_states |->
                 IF file # <<>>
                 THEN update_file_state(fs, server_key, file_size(file),
                                        total_lines, file[total_lines])
                 ELSE fs]

get_sftp_log_content(fs, server_id, file, fetched) ==
    IF ~fetched THEN [content |-> NoContent, file_states |-> fs]
    ELSE LET server_key == sftp_server_key(server_id)
             total_lines == Len(file)
             last_line_count == last_position(fs, server_key, file_size(file), file)
             new_lines == SubSeq(file, last_line_count + 1, total_lines)
         IN [content |-> [ok |-> TRUE, lines |-> joined_splitlines(new_lines),
                          size |-> joined_size(new_lines)],
             file_states |->
                 IF file # <<>>
                 THEN update_file_state(fs, server_key, file_size(file),
                                        total_lines, file[total_lines])
                 ELSE fs]

get_dev_log_content(file, fetched) ==
    IF ~fetched THEN NoContent
    ELSE [ok |-> TRUE, lines |-> file, size |-> file_size(file)]

\* not log_content, for None and for the empty string
not_content(content) == ~content.ok \/ content.size = 0

\* not log_content.strip()
blank_content(content) == \A i \in 1..Len(content.lines) : content.lines[i] = BlankLine

\* the first key of log_patterns whose pattern matches the line
NoEvent == "no_event"
log_patterns_match(line) ==
    CASE line.kind = "queue_join" -> "queue_join"
      [] line.kind = "beacon_join" -> "beacon_join"
      [] line.kind = "player_joined" -> "player_joined"
      [] line.kind = "disconnect" -> "disconnect_post_join"
      [] line.kind = "disconnect_alt" -> "disconnect_pre_join"
      [] line.kind = "beacon_disconnect" -> "beacon_disconnect"
      [] line.kind = "mission_ready" -> "mission_ready"
      [] line.kind = "server_max_players" -> "server_max_players"
      [] OTHER -> NoEvent

\* the connection parser sees every line that is not empty; the event comes
\* from log_patterns, stamped with the current time because group 1 of these
\* patterns is not a timestamp
parse_log_line(lp, line, server_key, t, ch) ==
    IF line = BlankLine THEN [lp |-> lp, event |-> NoEvent, diag |-> "none"]
    ELSE LET r == parse_connection_event(lp.cp, line, server_key, t, ch)
         IN [lp |-> [lp EXCEPT !.cp = r.cp],
             event |-> log_patterns_match(line),
             diag |-> r.diag]

should_output_event(event_type) == event_type = "mission_ready"

\* init_server_status
init_server_status ==
    [current_players |-> 0, max_players |-> default_max_players, queue_count |-> 0]

\* update_voice_channel_name: the same voice channel, renamed from the
\* counts of server_status
update_voice_channel_name(lp, server_key, ch) ==
    IF server_key \notin DOMAIN lp.server_status THEN lp
    ELSE IF "playercountvc" \notin ch THEN lp
    ELSE LET status == lp.server_status[server_key]
         IN [lp EXCEPT !.cp.voice_label =
                (server_key :> [player_count |-> status.current_players,
                                max_players |-> status.max_players,
                                queue_count |-> status.queue_count]) @@ @]

\* LogParser.update_server_max_players
status_max_players(lp, server_key, max_players, ch) ==
    LET status == IF server_key \in DOMAIN lp.server_status
                  THEN lp.server_status[server_key] ELSE init_server_status
        l1 == [lp EXCEPT !.server_status =
                  (server_key :> [status EXCEPT !.max_players = max_players]) @@ @]
    IN update_voice_channel_name(l1, server_key, ch)

\* the event of a playersmaxcount line carries no max_players (its pattern
\* has one group), so the default is stored; then the hourly sweep
process_log_event(lp, server_key, event_type, timestamp, t, ch) ==
    LET l1 == IF event_type = "server_max_players"
              THEN status_max_players(lp, server_key, default_max_players, ch)
              ELSE lp
    IN IF l1.last_cleanup = -1
       THEN [l1 EXCEPT !.last_cleanup = timestamp]
       ELSE IF timestamp - l1.last_cleanup > cleanup_interval
       THEN [l1 EXCEPT !.cp = cleanup_old_states(@, t),
                       !.last_cleanup = timestamp]
       ELSE l1

\* events that pass the dispatch rules go to the 'events' channel, or to
\* 'logs' when there is none
send_log_event_embed(lp, server_key, event_type, ch) ==
    IF ~should_output_event(event_type) THEN lp
    ELSE IF "events" \notin ch /\ "logs" \notin ch THEN lp
    ELSE [lp EXCEPT !.cp.notifications =
            Append(@, [type |-> "mission_event", connection_id |-> None,
                       player_id |-> None, server_key |-> server_key])]

\* the outcome of an ingestion run: the state after it and what it counted
Run(lp, processed_lines, new_events, transitions) ==
    [lp |-> lp, processed_lines |-> processed_lines, new_events |-> new_events,
     transitions |-> transitions]

\* the loop over the lines of a window
RECURSIVE process_lines(_, _, _, _, _)
process_lines(run, lines, server_key, t, ch) ==
    IF lines = <<>> THEN run
    ELSE LET r == parse_log_line(run.lp, Head(lines), server_key, t, ch)
             l1 == IF r.event = NoEvent THEN r.lp
                   ELSE send_log_event_embed(
                            process_log_event(r.lp, server_key, r.event, t, t, ch),
                            server_key, r.event, ch)
         IN process_lines(Run(l1, run.processed_lines + 1,
                              run.new_events + (IF r.event = NoEvent THEN 0 ELSE 1),
                              run.transitions + Applied(r.diag)),
                          Tail(lines), server_key, t, ch)

(***************************************************************************)
(* IntelligentLogParser: the parser that the cold start hands its text to. *)
(* It keeps a byte position and a hash of the first bytes of the text per  *)
(* server, and counts of its own.                                          *)
(***************************************************************************)
\* IntelligentLogParser.__init__
IntelligentLogParser ==
    [last_log_position |-> EmptyMap, log_file_hashes |-> EmptyMap,
     server_status |-> EmptyMap, player_sessions |-> {}]

\* a NotifyAcceptedConnection line of the world, without a timestamp in
\* brackets: only the patterns of the IntelligentLogParser match it
WorldConnectLine == Line("world_connect", "c1", None, 0)

\* the number of lines of a text that start before byte p, between lo and hi
RECURSIVE lines_starting_before(_, _, _, _)
lines_starting_before(lines, p, lo, hi) ==
    IF lo = hi THEN lo
    ELSE LET mid == (lo + hi + 1) \div 2
         IN IF file_size(SubSeq(lines, 1, mid - 1)) < p
            THEN lines_starting_before(lines, p, mid, hi)
            ELSE lines_starting_before(lines, p, lo, mid - 1)

\* md5 of the first 1024 bytes: two texts have the same hash when the lines
\* that start in these bytes are the same
get_file_hash(content) ==
    SubSeq(content.lines, 1,
           lines_starting_before(content.lines, hash_bytes, 0, Len(content.lines)))

\* f.seek(last_position); f.readlines(): the rest of the line the position
\* lies in, empty when the position is at its end and otherwise taken as a
\* line that no pattern matches, and the lines after it
readlines(content, position) ==
    LET lines == content.lines
        m == lines_starting_before(lines, position, 0, Len(lines))
        rest == SubSeq(lines, m + 1, Len(lines))
    IN IF position = 0 THEN lines
       ELSE IF position >= content.size THEN <<>>
       ELSE IF file_size(SubSeq(lines, 1, m)) = position THEN rest
       ELSE IF file_size(SubSeq(lines, 1, m)) = position + 1
       THEN <<BlankLine>> \o rest
       ELSE <<Line("unmatched", None, None, 0)>> \o rest

\* _reset_server_tracking
reset_server_tracking(ip, status_key) ==
    [ip EXCEPT
        !.server_status =
            (status_key :> [current_players |-> 0,
                            max_players |-> default_max_players,
                            queue_count |-> 0, queued_connections |-> {},
                            online_connections |-> {}]) @@ @,
        !.player_sessions = {k \in @ : k[1] # status_key}]

\* _handle_log_rotation
handle_log_rotation(ip, log_key) ==
    [reset_server_tracking(ip, log_key) EXCEPT
        !.last_log_position = (log_key :> 0) @@ @]

\* the first branch of _analyze_line whose pattern matches the line
analyze_line_branch(line) ==
    CASE line.kind = "server_max_players" -> "server_max_players"
      [] line.kind = "queue_join" -> "player_queue_join"
      [] line.kind = "disconnect" -> "player_queue_disconnect"
      [] line.kind = "world_connect" -> "player_world_connect"
      [] line.kind = "mission_ready" -> "mission_state_change"
      [] OTHER -> NoEvent

\* the player_queue_disconnect branch reads groups 2 and 3 of a pattern that
\* has one group: match.group(2) raises IndexError
analyze_line_raises(line) ==
    analyze_line_branch(line) = "player_queue_disconnect"

\* the event that a branch appends
analyze_line_event(line) ==
    LET branch == analyze_line_branch(line)
    IN [type |-> CASE branch = "player_queue_join" -> "player_queue_attempt"
                   [] branch = "player_world_connect" -> "player_world_joined"
                   [] OTHER -> branch,
        connection_id |-> IF branch = "player_world_connect" THEN line.id
                          ELSE None]

\* _update_server_max_players and _track_world_join, called by the branches
analyze_line_track(ip, line, status_key) ==
    LET branch == analyze_line_branch(line)
        i0 == IF status_key \in DOMAIN ip.server_status THEN ip
              ELSE reset_server_tracking(ip, status_key)
    IN CASE branch = "server_max_players" ->
              [i0 EXCEPT !.server_status[status_key].max_players = line.max]
         [] branch = "player_world_connect" ->
              LET st == i0.server_status[status_key]
                  queued == st.queued_connections \ {line.id}
                  online == st.online_connections \cup {line.id}
              IN [i0 EXCEPT
                    !.server_status[status_key] =
                        [st EXCEPT !.queued_connections = queued,
                                   !.online_connections = online,
                                   !.current_players = Cardinality(online),
                                   !.queue_count = Cardinality(queued)],
                    !.player_sessions = @ \cup {<<status_key, line.id>>}]
         [] OTHER -> ip

\* the loop of parse_log_file over the lines that take a branch, until one
\* raises
RECURSIVE analyze_lines(_, _, _)
analyze_lines(acc, lines, status_key) ==
    IF lines = <<>> THEN acc
    ELSE IF analyze_line_raises(Head(lines)) THEN [acc EXCEPT !.error = TRUE]
    ELSE analyze_lines(
             [ip |-> analyze_line_track(acc.ip, Head(lines), status_key),
              events |-> Append(acc.events, analyze_line_event(Head(lines))),
              error |-> FALSE],
             Tail(lines), status_key)

\* _send_event_embed for the events of the model: a world join goes to the
\* 'connections' channel with channel.send; the other events have no embed
send_event_embed(cp, event, server_key, ch) ==
    IF event.type = "player_world_joined" /\ "connections" \in ch
    THEN [cp EXCEPT !.notifications =
            Append(@, [type |-> "player_connection",
                       connection_id |-> event.connection_id,
                       player_id |-> None,
                       server_key |-> server_key])]
    ELSE cp

\* _dispatch_events
RECURSIVE dispatch_events(_, _, _, _)
dispatch_events(cp, events, server_key, ch) ==
    IF events = <<>> THEN cp
    ELSE dispatch_events(send_event_embed(cp, Head(events), server_key, ch),
                         Tail(events), server_key, ch)

\* parse_log_file on the temporary file that holds the text; lines_analyzed
\* is -1 when the result has no such key.  A line that takes no branch of
\* _analyze_line yields no event and changes nothing, so the loop runs over
\* the lines that take one.
parse_log_file(lp, content, log_key, ch) ==
    LET ip == lp.intelligent_parser
        current_hash == get_file_hash(content)
        rotated == /\ log_key \in DOMAIN ip.log_file_hashes
                   /\ ip.log_file_hashes[log_key] # current_hash
        i1 == IF rotated THEN handle_log_rotation(ip, log_key) ELSE ip
        i2 == [i1 EXCEPT !.log_file_hashes = (log_key :> current_hash) @@ @]
        seek_position == IF log_key \in DOMAIN i2.last_log_position
                         THEN i2.last_log_position[log_key] ELSE 0
        new_lines == readlines(content, seek_position)
        loop == analyze_lines(
                    [ip |-> i2, events |-> <<>>, error |-> FALSE],
                    SelectSeq(new_lines,
                              LAMBDA l : analyze_line_branch(l) # NoEvent),
                    log_key)
        i3 == [loop.ip EXCEPT !.last_log_position =
                                  (log_key :> content.size) @@ @]
    IN IF new_lines = <<>>
       THEN [lp |-> [lp EXCEPT !.intelligent_parser = i2],
             error |-> FALSE, events_processed |-> 0, lines_analyzed |-> -1]
       ELSE IF loop.error
       THEN [lp |-> [lp EXCEPT !.intelligent_parser = loop.ip],
             error |-> TRUE, events_processed |-> 0, lines_analyzed |-> -1]
       ELSE [lp |-> [lp EXCEPT !.intelligent_parser = i3,
                               !.cp = dispatch_events(@, loop.events,
                                                      log_key, ch)],
             error |-> FALSE, events_processed |-> Len(loop.events),
             lines_analyzed |-> Len(new_lines)]

\* the cold start hands the text to the IntelligentLogParser; then the file
\* state is stored and the connection parser recounts
cold_start(lp, server_key, content, ch) ==
    LET lines == content.lines
        result == parse_log_file(lp, content, server_key, ch)
        l1 == result.lp
        fs == update_file_state(l1.file_states, server_key, content.size,
                                Len(lines), lines[Len(lines)])
        cp == update_counts(initialize_server_tracking(l1.cp, server_key),
                            server_key, ch)
    IN Run([l1 EXCEPT !.file_states = fs, !.cp = cp],
           IF result.lines_analyzed = -1 THEN Len(lines)
           ELSE result.lines_analyzed,
           result.events_processed, 0)

hot_start(lp, server_key, content, t, ch) ==
    LET lines == content.lines
        run == process_lines(Run(lp, 0, 0, 0), lines, server_key, t, ch)
    IN [run EXCEPT !.lp.file_states =
            update_file_state(@, server_key, content.size, Len(lines),
                              lines[Len(lines)])]

parse_server_logs(lp, server_id, file, dev, fetched, t, ch) ==
    LET got == IF dev
               THEN [content |-> get_dev_log_content(file, fetched),
                     file_states |-> lp.file_states]
               ELSE get_sftp_log_content(lp.file_states, server_id, file, fetched)
        l0 == [lp EXCEPT !.file_states = got.file_states]
        server_key == get_server_status_key(server_id)
    IN IF not_content(got.content) THEN Run(l0, 0, 0, 0)
       ELSE IF blank_content(got.content) THEN Run(l0, 0, 0, 0)
       ELSE IF Len(got.content.lines) > cold_start_threshold
       THEN cold_start(l0, server_key, got.content, ch)
       ELSE hot_start(l0, server_key, got.content, t, ch)

parse_dev_logs(lp, server_id, file, fetched, t, ch) ==
    LET content == get_dev_log_content(file, fetched)
        lines == content.lines
        server_key == get_server_status_key(server_id)
        position == last_position(lp.file_states, server_key, content.size, lines)
        new_lines == SubSeq(lines, position + 1, Len(lines))
        run == process_lines(Run(lp, 0, 0, 0), new_lines, server_key, t, ch)
    IN IF not_content(content) THEN Run(lp, 0, 0, 0)
       ELSE [run EXCEPT !.lp.file_states =
                update_file_state(@, server_key, content.size, Len(lines),
                                  lines[Len(lines)])]

\* a call of parse_server_logs that is not in progress
Idle == [pc |-> "idle", server_id |-> None, window |-> <<>>,
         content |-> NoContent]

\* no call of get_sftp_connection is in progress
NoCall == [pc |-> "idle", attempt |-> 0, attempts |-> 0, slept |-> 0,
           elapsed |-> 0, conn |-> None]

\* BatchSender.__init__
BatchSender == [message_queues |-> EmptyMap, processing_channels |-> {}]

(***************************************************************************)
(* ConnectionLifecycleParser, the parser of connection_parser.py, with the *)
(* states OFFLINE, QUEUED, JOINED and DISCONNECTED.  Its state is passed   *)
(* as a record lc: the dicts of the object, the embeds sent to the         *)
(* connections channel and the label of the voice channel.                 *)
(***************************************************************************)
ConnectionLifecycleParser ==
    [server_counts |-> EmptyMap, player_states |-> EmptyMap,
     player_names |-> EmptyMap, recent_connections |-> EmptyMap,
     recent_disconnections |-> EmptyMap]

\* state_history is held by the event_type of its last entry
PlayerState(player_id, player_name, t) ==
    [player_id |-> player_id, player_name |-> player_name,
     current_state |-> "OFFLINE", last_event_time |-> t,
     last_event_type |-> None]

\* valid_transitions of PlayerState.can_transition_to
lifecycle_transitions ==
    [OFFLINE |-> {"QUEUED"}, QUEUED |-> {"JOINED", "DISCONNECTED"},
     JOINED |-> {"DISCONNECTED"}, DISCONNECTED |-> {"QUEUED"}]

\* is_duplicate_event(event_type), with its time_threshold of 60.0
lifecycle_duplicate(ps, event_type, t) ==
    ps.last_event_type = event_type /\ t - ps.last_event_time < 60

\* initialize_server_tracking of the ConnectionLifecycleParser
lifecycle_tracking(lc, server_key) ==
    [f \in DOMAIN lc |->
        IF f \in DOMAIN ConnectionLifecycleParser /\ server_key \notin DOMAIN lc[f]
        THEN lc[f] @@ (server_key :>
                          IF f = "server_counts"
                          THEN [queue_count |-> 0, player_count |-> 0]
                          ELSE EmptyMap)
        ELSE lc[f]]

\* _get_or_create_player_state
lifecycle_player(lc, server_key, player_id, player_name, t) ==
    IF player_id \notin DOMAIN lc.player_states[server_key]
    THEN [lc EXCEPT !.player_states[server_key] =
             @ @@ (player_id :> PlayerState(player_id, player_name, t))]
    ELSE IF player_name # None
            /\ lc.player_states[server_key][player_id].player_name = None
    THEN [lc EXCEPT !.player_states[server_key][player_id].player_name =
             player_name]
    ELSE lc

\* _update_live_counts and _update_voice_channels, whose max_players is 50
update_live_counts(lc, server_key, ch) ==
    [lc EXCEPT
        !.server_counts[server_key] =
            [queue_count |-> CountInState(lc.player_states[server_key], "QUEUED"),
             player_count |-> CountInState(lc.player_states[server_key], "JOINED")],
        !.voice_label =
            IF "playercountvc" \notin ch THEN @
            ELSE (server_key :>
                    [player_count |-> CountInState(lc.player_states[server_key],
                                                   "JOINED"),
                     max_players |-> 50,
                     queue_count |-> CountInState(lc.player_states[server_key],
                                                  "QUEUED")]) @@ @]

\* _mark_connection_sent: the time of the embed, and the sweep of the
\* entries older than two minutes
mark_connection_sent(recent, player_id, t) ==
    [p \in {q \in DOMAIN recent : t - recent[q] <= 120} \cup {player_id} |->
        IF p = player_id THEN t ELSE recent[p]]

\* _create_join_embed and _create_leave_embed: recent is the dict of the
\* kind of the embed, db_name what the lookup of _resolve_player_name in
\* the database finds for the id
create_embed(lc, server_key, player_id, player_name, type, recent, db_name, t, ch) ==
    LET cached == player_id \in DOMAIN lc.player_names[server_key]
        display_name ==
            IF cached THEN lc.player_names[server_key][player_id]
            ELSE IF db_name # None THEN db_name ELSE player_name
    IN IF player_id \in DOMAIN lc[recent][server_key]
          /\ t - lc[recent][server_key][player_id] < 60
       THEN lc
       ELSE [lc EXCEPT
                !.player_names[server_key] =
                    IF ~cached /\ db_name # None
                    THEN (player_id :> db_name) @@ @ ELSE @,
                ![recent][server_key] =
                    IF display_name = None \/ display_name = player_id THEN @
                    ELSE mark_connection_sent(@, player_id, t),
                !.notifications =
                    IF display_name = None \/ display_name = player_id
                       \/ "connections" \notin ch
                    THEN @
                    ELSE Append(@, [type |-> type,
                                    connection_id |-> display_name,
                                    player_id |-> player_id,
                                    server_key |-> server_key])]

\* the test of a duplicate, PlayerState.transition_to, and what the branch
\* of parse_lifecycle_event does when it succeeds: lc has the record of the
\* player
lifecycle_transition(lc, server_key, player_id, new_state, event_type, db_name, t, ch) ==
    IF lifecycle_duplicate(lc.player_states[server_key][player_id], event_type, t)
       \/ new_state \notin lifecycle_transitions[
              lc.player_states[server_key][player_id].current_state]
    THEN lc
    ELSE IF new_state = "JOINED"
    THEN create_embed(
             update_live_counts(
                 [lc EXCEPT !.player_states[server_key][player_id] =
                     [@ EXCEPT !.current_state = new_state,
                               !.last_event_time = t,
                               !.last_event_type = event_type]],
                 server_key, ch),
             server_key, player_id,
             lc.player_states[server_key][player_id].player_name,
             "player_join", "recent_connections", db_name, t, ch)
    ELSE IF lc.player_states[server_key][player_id].current_state = "JOINED"
    THEN create_embed(
             update_live_counts(
                 [lc EXCEPT !.player_states[server_key][player_id] =
                     [@ EXCEPT !.current_state = new_state,
                               !.last_event_time = t,
                               !.last_event_type = event_type]],
                 server_key, ch),
             server_key, player_id,
             lc.player_states[server_key][player_id].player_name,
             "player_leave", "recent_disconnections", db_name, t, ch)
    ELSE update_live_counts(
             [lc EXCEPT !.player_states[server_key][player_id] =
                 [@ EXCEPT !.current_state = new_state,
                           !.last_event_time = t,
                           !.last_event_type = event_type]],
             server_key, ch)

parse_lifecycle_event(lc, line, server_key, db_name, t, ch) ==
    IF patterns_search("queue_join", line)
    THEN lifecycle_transition(
             lifecycle_player(lifecycle_tracking(lc, server_key), server_key,
                              line.id, line.name, t),
             server_key, line.id, "QUEUED", "queue_join", db_name, t, ch)
    ELSE IF patterns_search("player_joined", line)
    THEN lifecycle_transition(
             lifecycle_player(lifecycle_tracking(lc, server_key), server_key,
                              line.id, None, t),
             server_key, line.id, "JOINED", "player_joined", db_name, t, ch)
    ELSE IF patterns_search("disconnect", line)
            /\ line.id \in DOMAIN lifecycle_tracking(lc, server_key)
                                     .player_states[server_key]
    THEN lifecycle_transition(lifecycle_tracking(lc, server_key),
                              server_key, line.id, "DISCONNECTED", "disconnect",
                              db_name, t, ch)
    ELSE lifecycle_tracking(lc, server_key)

\* reset_server_counts of the ConnectionLifecycleParser
lifecycle_reset_server_counts(lc, server_key) ==
    [f \in DOMAIN lc |->
        IF f \in {"server_counts", "player_states", "player_names"}
        THEN [k \in DOMAIN lc[f] \ {server_key} |-> lc[f][k]]
        ELSE lc[f]]

LC == lifecycle_parser
      @@ [notifications |-> notifications, voice_label |-> voice_label]

(***************************************************************************)
(* Specification of the connection parser: lines, the clock, the cleanup   *)
(* sweep and the administrative reset, in any order.                       *)
(***************************************************************************)
SetCP(cp) ==
    /\ player_states' = cp.player_states
    /\ server_counts' = cp.server_counts
    /\ notifications' = cp.notifications
    /\ voice_label' = cp.voice_label

Init ==
    /\ now = 0
    /\ channels \in {{}, {"connections", "playercountvc"}}
    /\ player_states = EmptyMap
    /\ server_counts = EmptyMap
    /\ notifications = <<>>
    /\ voice_label = EmptyMap
    /\ calls = 0
    /\ dev_mode = FALSE
    /\ log_file = <<>>
    /\ file_states = EmptyMap
    /\ server_status = EmptyMap
    /\ last_cleanup = -1
    /\ runs = 0
    /\ reset_size = 0
    /\ reset_detected = None
    /\ intelligent_parser = IntelligentLogParser
    /\ tasks = [task \in Tasks |-> Idle]
    /\ parser_states = EmptyMap
    /\ csv_file = <<>>
    /\ parsed_lines = EmptyMap
    /\ kill_events = <<>>
    /\ pvp_data = EmptyMap
    /\ lifecycle_parser = ConnectionLifecycleParser
    /\ sftp_pool = EmptyMap
    /\ sftp_call = NoCall
    /\ batch_sender = BatchSender
    /\ batch_tasks = <<>>
    /\ last_sent = EmptyMap

ParseConnectionEvent(line, server_key) ==
    /\ calls < MaxCalls
    /\ LET r == parse_connection_event(CP, line, server_key, now, channels)
       IN /\ SetCP(r.cp)
          /\ calls' = calls + 1
    /\ UNCHANGED <<now, channels, lpvars, filevars,
                 resetvars, tasks, parser_states,
                   killvars,
                   lifecycle_parser,
                   sftpvars, batchvars>>

CleanupOldStates ==
    /\ SetCP(cleanup_old_states(CP, now))
    /\ UNCHANGED <<now, channels, calls, lpvars, filevars,
                 resetvars, tasks, parser_states,
                   killvars,
                   lifecycle_parser,
                   sftpvars, batchvars>>

ResetServerCounts(server_key) ==
    /\ SetCP(reset_server_counts(CP, server_key))
    /\ UNCHANGED <<now, channels, calls, lpvars, filevars,
                 resetvars, tasks, parser_states,
                   killvars,
                   lifecycle_parser,
                   sftpvars, batchvars>>

Tick ==
    /\ (now % DaySeconds) + TickSeconds <= MaxSecond
    /\ now' = now + TickSeconds
    /\ UNCHANGED <<channels, cpvars, calls, lpvars, filevars,
                 resetvars, tasks, parser_states,
                   killvars,
                   lifecycle_parser,
                   sftpvars, batchvars>>

TickDay ==
    /\ now \div DaySeconds < MaxDays
    /\ now' = ((now \div DaySeconds) + 1) * DaySeconds + MaxSecond
    /\ UNCHANGED <<channels, cpvars, calls, lpvars, filevars,
                 resetvars, tasks, parser_states,
                   killvars,
                   lifecycle_parser,
                   sftpvars, batchvars>>

\* the lines the behaviours feed: every shape for the first player, and the
\* queue, join and disconnect shapes for the others
FedLines ==
    {l \in Lines : l.id \in Players \ {"a1"}
                      => l.kind \in {"queue_join", "player_joined", "disconnect"}}

Next ==
    \/ \E line \in FedLines, k \in ServerKeys : ParseConnectionEvent(line, k)
    \/ CleanupOldStates
    \/ \E k \in ServerKeys : ResetServerCounts(k)
    \/ Tick
    \/ TickDay

Spec == Init /\ [][Next]_vars

(***************************************************************************)
(* Specification of the connection parser with two servers of the guild:   *)
(* the lines of one player, a queue_join of a second one and the max       *)
(* players line arrive for either server, in any order with the clock of   *)
(* one day and the reset of either server.                                 *)
(***************************************************************************)
\* the key of a second server of the guild
OtherKey == get_server_status_key("s2")

BothKeys == ServerKeys \cup {OtherKey}

ServerLines ==
    {l \in Lines : l.id = "a1" /\ l.kind \in {"queue_join", "player_joined",
                                              "disconnect", "beacon_disconnect"}}
    \cup {l \in Lines : l.kind = "server_max_players"}
    \cup {Line("queue_join", "b2", "Bob", 0)}

NextServers ==
    \/ \E line \in ServerLines, k \in BothKeys : ParseConnectionEvent(line, k)
    \/ \E k \in BothKeys : ResetServerCounts(k)
    \/ Tick

SpecServers == Init /\ [][NextServers]_vars

(***************************************************************************)
(* Specification of the ConnectionLifecycleParser: lines of the three      *)
(* shapes it reads, the clock and the reset, in any order.                 *)
(***************************************************************************)
SetLC(lc) ==
    /\ lifecycle_parser' = [f \in DOMAIN lifecycle_parser |-> lc[f]]
    /\ notifications' = lc.notifications
    /\ voice_label' = lc.voice_label

ParseLifecycleEvent(line, server_key, db_name) ==
    /\ calls < MaxCalls
    /\ SetLC(parse_lifecycle_event(LC, line, server_key, db_name, now, channels))
    /\ calls' = calls + 1
    /\ UNCHANGED <<now, channels, player_states, server_counts, lpvars,
                   filevars, resetvars, tasks, parser_states, killvars,
                   sftpvars, batchvars>>

LifecycleResetServerCounts(server_key) ==
    /\ server_key \in DOMAIN lifecycle_parser.server_counts
    /\ SetLC(lifecycle_reset_server_counts(LC, server_key))
    /\ UNCHANGED <<now, channels, player_states, server_counts, calls, lpvars,
                   filevars, resetvars, tasks, parser_states, killvars,
                   sftpvars, batchvars>>

NextLifecycle ==
    \/ \E line \in {l \in Lines : l.kind \in {"queue_join", "player_joined",
                                              "disconnect"}},
          k \in ServerKeys, db_name \in Names \cup {None} :
           ParseLifecycleEvent(line, k, db_name)
    \/ \E k \in ServerKeys : LifecycleResetServerCounts(k)
    \/ Tick
    \/ TickDay

SpecLifecycle == Init /\ [][NextLifecycle]_vars

(***************************************************************************)
(* LogParser.get_sftp_connection.  The call runs to its first await in one *)
(* step; each await of asyncssh.connect under wait_for, and each sleep of  *)
(* the backoff, ends in a step of its own.  attempts counts the connects   *)
(* the call made, slept and elapsed the seconds it slept and it took.      *)
(***************************************************************************)
\* f"{sftp_host}:{sftp_port}:{sftp_username}", of the one configured host
pool_key == SftpHost

\* the seconds after which asyncssh.connect can end before the timeout
ConnectSeconds == {1, 10}

\* how an await of wait_for(asyncssh.connect(...)) ends: with a connection,
\* with asyncio.TimeoutError, with asyncssh.Error, or with another exception
ConnectOutcomes == {"connected", "timeout", "ssh_error", "other"}

\* a loop that never gives up
retry_always(attempt) == TRUE

\* after a failed attempt the loop sleeps and tries again: attempt < 2, of
\* range(3)
retry_again(attempt) == attempt < connect_attempts - 1

Returned(call, conn) == [call EXCEPT !.pc = "returned", !.conn = conn]

\* the call, to its return or to the await of the first attempt
get_sftp_connection(pool, configured) ==
    IF ~configured
    THEN [pool |-> pool, call |-> Returned(NoCall, None)]
    ELSE IF pool_key \in DOMAIN pool /\ pool[pool_key] = "open"
    THEN [pool |-> pool, call |-> Returned(NoCall, "conn")]
    ELSE [pool |-> [k \in DOMAIN pool \ {pool_key} |-> pool[k]],
          call |-> [NoCall EXCEPT !.pc = "connect"]]

\* the await of the attempt ends after the seconds given
connect_ends(pool, call, outcome, seconds) ==
    LET made == [call EXCEPT !.attempts = @ + 1, !.elapsed = @ + seconds]
    IN IF outcome = "connected"
       THEN [pool |-> (pool_key :> "open") @@ pool, call |-> Returned(made, "conn")]
       ELSE IF outcome = "other" THEN [pool |-> pool, call |-> Returned(made, None)]
       ELSE IF retry_again(call.attempt)
       THEN [pool |-> pool, call |-> [made EXCEPT !.pc = "sleep"]]
       ELSE [pool |-> pool, call |-> Returned(made, None)]

\* asyncio.sleep(2 ** attempt) ends and the loop goes on
backoff_ends(call) ==
    [call EXCEPT !.pc = "connect", !.attempt = @ + 1,
                 !.slept = @ + 2 ^ call.attempt,
                 !.elapsed = @ + 2 ^ call.attempt]

SetSftp(r) ==
    /\ sftp_pool' = r.pool
    /\ sftp_call' = r.call

GetSftpConnection(configured) ==
    /\ sftp_call.pc \in {"idle", "returned"}
    /\ SetSftp(get_sftp_connection(sftp_pool, configured))
    /\ UNCHANGED <<now, channels, cpvars, calls, lpvars, filevars, resetvars,
                   tasks, parser_states, killvars, lifecycle_parser, batchvars>>

ConnectEnds(outcome, seconds) ==
    /\ sftp_call.pc = "connect"
    /\ (outcome = "timeout") <=> (seconds = connect_timeout)
    /\ SetSftp(connect_ends(sftp_pool, sftp_call, outcome, seconds))
    /\ UNCHANGED <<now, channels, cpvars, calls, lpvars, filevars, resetvars,
                   tasks, parser_states, killvars, lifecycle_parser, batchvars>>

ConnectReturns ==
    \E outcome \in ConnectOutcomes, seconds \in ConnectSeconds \cup {connect_timeout} :
        ConnectEnds(outcome, seconds)

BackoffEnds ==
    /\ sftp_call.pc = "sleep"
    /\ sftp_call' = backoff_ends(sftp_call)
    /\ UNCHANGED <<now, channels, cpvars, calls, lpvars, filevars, resetvars,
                   tasks, parser_states, killvars, lifecycle_parser, sftp_pool,
                   batchvars>>

\* the server closes the pooled connection
ConnectionCloses ==
    /\ pool_key \in DOMAIN sftp_pool
    /\ sftp_pool[pool_key] = "open"
    /\ sftp_pool' = [sftp_pool EXCEPT ![pool_key] = "closed"]
    /\ UNCHANGED <<now, channels, cpvars, calls, lpvars, filevars, resetvars,
                   tasks, parser_states, killvars, lifecycle_parser, sftp_call,
                   batchvars>>

NextSftp ==
    \/ \E configured \in BOOLEAN : GetSftpConnection(configured)
    \/ ConnectReturns
    \/ BackoffEnds
    \/ ConnectionCloses

\* wait_for bounds every attempt and a sleep ends: an await of the call does
\* not last forever
SpecSftp ==
    Init /\ [][NextSftp]_vars /\ WF_vars(ConnectReturns) /\ WF_vars(BackoffEnds)

(***************************************************************************)
(* BatchSender.  Its state is passed as a record b: bs, the object with    *)
(* message_queues and processing_channels; tasks, the tasks that           *)
(* asyncio.create_task made for _process_channel_queue and that have not   *)
(* returned, each with its position and its local batch; last_sent, the    *)
(* last message handed to channel.send for a channel.  A message is the    *)
(* number of the queue_embed call that brought it.  The code between two   *)
(* awaits runs in one step.                                                *)
(***************************************************************************)
BatchChannels == {"c1"}

\* what an await of channel.send ends with: the message is sent, the
\* HTTPException of status 429, or another exception
SendOutcomes == {"sent", "rate_limited", "failed"}

\* self.message_queues[channel_id] of the defaultdict(list), and the dict
\* after the access
queue_of(bs, channel_id) ==
    IF channel_id \in DOMAIN bs.message_queues
    THEN bs.message_queues[channel_id] ELSE <<>>

touched(bs, channel_id) ==
    IF channel_id \in DOMAIN bs.message_queues THEN bs
    ELSE [bs EXCEPT !.message_queues = @ @@ (channel_id :> <<>>)]

\* a test that lets a full queue take one more message
queue_full_late(queue) == Len(queue) > max_queue_size

\* len(self.message_queues[channel_id]) >= self.max_queue_size
queue_full(queue) == Len(queue) >= max_queue_size

\* a guard that never finds the channel in processing
already_processing_never(bs, channel_id) == FALSE

\* channel_id in self.processing_channels
already_processing(bs, channel_id) == channel_id \in bs.processing_channels

\* a loop that stops after its first batch
more_waiting_never(queue) == FALSE

\* the truth value of self.message_queues[channel_id]
more_waiting(queue) == queue # <<>>

\* asyncio.create_task(self._process_channel_queue(channel_id))
create_task(ts, channel_id) ==
    Append(ts, [channel_id |-> channel_id, pc |-> "created", batch |-> <<>>])

queue_embed(b, channel_id, message) ==
    IF queue_full(queue_of(b.bs, channel_id))
    THEN [b EXCEPT !.bs = touched(@, channel_id)]
    ELSE [b EXCEPT
            !.bs = [touched(@, channel_id) EXCEPT
                       !.message_queues[channel_id] = Append(@, message)],
            !.tasks = IF already_processing(b.bs, channel_id) THEN @
                      ELSE create_task(@, channel_id)]

\* the channels flush_all_queues makes a task for
flush_channels(bs) ==
    {c \in DOMAIN bs.message_queues :
        more_waiting(bs.message_queues[c]) /\ ~already_processing(bs, c)}

RECURSIVE create_tasks(_, _)
create_tasks(ts, channel_ids) ==
    IF channel_ids = {} THEN ts
    ELSE LET c == CHOOSE x \in channel_ids : TRUE
         IN create_tasks(create_task(ts, c), channel_ids \ {c})

flush_all_queues(b) ==
    [b EXCEPT !.tasks = create_tasks(@, flush_channels(b.bs))]

\* the task returns: the coroutine is over
task_returns(ts, i) ==
    [j \in 1..(Len(ts) - 1) |-> IF j < i THEN ts[j] ELSE ts[j + 1]]

\* await channel.send(**kwargs) for the first message of the batch, at the
\* position pc of the task
channel_send(b, i, batch, pc) ==
    [b EXCEPT !.tasks[i].pc = pc, !.tasks[i].batch = batch,
              !.last_sent = (b.tasks[i].channel_id :> batch[1]) @@ @]

\* the finally clause, after which the task returns
finally_discard(b, i) ==
    [b EXCEPT !.bs.processing_channels = @ \ {b.tasks[i].channel_id},
              !.tasks = task_returns(@, i)]

min(a, c) == IF a < c THEN a ELSE c

\* the head of the while loop: the end of the loop, or a batch of up to
\* batch_size messages popped from the front and the first send
while_queue(b, i) ==
    LET queue == queue_of(b.bs, b.tasks[i].channel_id)
        n == min(batch_size, Len(queue))
    IN IF ~more_waiting(queue) THEN finally_discard(b, i)
       ELSE channel_send([b EXCEPT !.bs.message_queues[b.tasks[i].channel_id] =
                                       SubSeq(queue, n + 1, Len(queue))],
                         i, SubSeq(queue, 1, n), "send")

\* the start of _process_channel_queue, found being what bot.get_channel
\* returns
process_channel_queue(b, i, found) ==
    IF already_processing(b.bs, b.tasks[i].channel_id)
    THEN [b EXCEPT !.tasks = task_returns(@, i)]
    ELSE IF ~found
    THEN [b EXCEPT
            !.bs = [touched(@, b.tasks[i].channel_id) EXCEPT
                       !.message_queues[b.tasks[i].channel_id] = <<>>],
            !.tasks = task_returns(@, i)]
    ELSE while_queue([b EXCEPT !.bs.processing_channels =
                                   @ \cup {b.tasks[i].channel_id}], i)

\* _send_batch goes on to the next message of the batch; after the last
\* one the loop sleeps batch_interval when more messages wait
next_message(b, i) ==
    IF Len(b.tasks[i].batch) > 1
    THEN channel_send(b, i, Tail(b.tasks[i].batch), "send")
    ELSE IF more_waiting(queue_of(b.bs, b.tasks[i].channel_id))
    THEN [b EXCEPT !.tasks[i].pc = "interval", !.tasks[i].batch = <<>>]
    ELSE while_queue([b EXCEPT !.tasks[i].batch = <<>>], i)

\* an await of channel.send ends, the first one for the message or the one
\* after the rate limit
send_ends(b, i, outcome) ==
    IF b.tasks[i].pc = "send" /\ outcome = "sent"
    THEN [b EXCEPT !.tasks[i].pc = "pause"]
    ELSE IF b.tasks[i].pc = "send" /\ outcome = "rate_limited"
    THEN [b EXCEPT !.tasks[i].pc = "rate_limited"]
    ELSE next_message(b, i)

\* an await of asyncio.sleep ends: the pause after a message, the wait of
\* retry_after, the interval between two batches
sleep_ends(b, i) ==
    IF b.tasks[i].pc = "pause" THEN next_message(b, i)
    ELSE IF b.tasks[i].pc = "rate_limited"
    THEN channel_send(b, i, b.tasks[i].batch, "retry")
    ELSE while_queue(b, i)

B == [bs |-> batch_sender, tasks |-> batch_tasks, last_sent |-> last_sent]

SetB(b) ==
    /\ batch_sender' = b.bs
    /\ batch_tasks' = b.tasks
    /\ last_sent' = b.last_sent

BatchFrame ==
    UNCHANGED <<now, channels, cpvars, lpvars, filevars, resetvars, tasks,
                parser_states, killvars, lifecycle_parser, sftpvars>>

\* queue_embed has no await: the call is one step.  A call that would make
\* one task more than MaxTasks is left out.
QueueEmbedCall(channel_id) ==
    /\ Len(queue_embed(B, channel_id, calls + 1).tasks) <= MaxTasks
    /\ SetB(queue_embed(B, channel_id, calls + 1))
    /\ calls' = calls + 1
    /\ BatchFrame

QueueEmbed(channel_id) ==
    calls < MaxQueued /\ QueueEmbedCall(channel_id)

QueueEmbedFew(channel_id) ==
    calls < MaxFew /\ QueueEmbedCall(channel_id)

\* flush_all_queues to its await of gather
FlushAllQueues ==
    /\ flush_channels(batch_sender) # {}
    /\ Len(flush_all_queues(B).tasks) <= MaxTasks
    /\ SetB(flush_all_queues(B))
    /\ UNCHANGED calls
    /\ BatchFrame

\* the event loop starts a task that was created: the tasks take their
\* first step in the order in which create_task was called for them
ProcessChannelQueue(i, found) ==
    /\ batch_tasks[i].pc = "created"
    /\ \A j \in 1..(i - 1) : batch_tasks[j].pc # "created"
    /\ SetB(process_channel_queue(B, i, found))
    /\ UNCHANGED calls
    /\ BatchFrame

SendEnds(i, outcome) ==
    /\ batch_tasks[i].pc \in {"send", "retry"}
    /\ SetB(send_ends(B, i, outcome))
    /\ UNCHANGED calls
    /\ BatchFrame

SleepEnds(i) ==
    /\ batch_tasks[i].pc \in {"pause", "rate_limited", "interval"}
    /\ SetB(sleep_ends(B, i))
    /\ UNCHANGED calls
    /\ BatchFrame

TaskStarts == \E i \in DOMAIN batch_tasks : ProcessChannelQueue(i, TRUE)

SendReturns ==
    \E i \in DOMAIN batch_tasks, outcome \in SendOutcomes : SendEnds(i, outcome)

SleepReturns == \E i \in DOMAIN batch_tasks : SleepEnds(i)

NextBatch ==
    \/ \E c \in BatchChannels : QueueEmbed(c)
    \/ FlushAllQueues
    \/ \E i \in DOMAIN batch_tasks, found \in BOOLEAN : ProcessChannelQueue(i, found)
    \/ SendReturns
    \/ SleepReturns

\* queue_embed is called for the 'connections' channel of a guild that has
\* one
InitBatch == Init /\ "connections" \in channels

SpecBatch == InitBatch /\ [][NextBatch]_vars

\* the runs in which the channel exists; the event loop runs every task it
\* was given, a sleep ends, and a send attempt ends
NextBatchFew ==
    \/ \E c \in BatchChannels : QueueEmbedFew(c)
    \/ FlushAllQueues
    \/ TaskStarts
    \/ SendReturns
    \/ SleepReturns

SpecBatchFew ==
    /\ InitBatch
    /\ [][NextBatchFew]_vars
    /\ WF_vars(TaskStarts)
    /\ WF_vars(SendReturns)
    /\ WF_vars(SleepReturns)

(***************************************************************************)
(* Specification of the ingestion: the game server writes and rotates the  *)
(* log file, the clock advances, and ingestion runs fetch and process it.  *)
(***************************************************************************)
\* the lines the game server writes
FileLines ==
    {Line("queue_join", "a1", "Bob", 0), Line("player_joined", "a1", None, 0),
     Line("disconnect", "a1", None, 0), Line("mission_ready", None, None, 0),
     Line("server_max_players", None, None, 60), BlankLine}

SetLP(lp) ==
    /\ SetCP(lp.cp)
    /\ file_states' = lp.file_states
    /\ server_status' = lp.server_status
    /\ last_cleanup' = lp.last_cleanup
    /\ intelligent_parser' = lp.intelligent_parser

InitIngest ==
    /\ now = 0
    /\ channels \in {{}, {"connections", "playercountvc", "events", "killfeed"}}
    /\ player_states = EmptyMap
    /\ server_counts = EmptyMap
    /\ notifications = <<>>
    /\ voice_label = EmptyMap
    /\ calls = 0
    /\ dev_mode \in BOOLEAN
    /\ log_file = <<>>
    /\ file_states = EmptyMap
    /\ server_status = EmptyMap
    /\ last_cleanup = -1
    /\ runs = 0
    /\ reset_size = 0
    /\ reset_detected = None
    /\ intelligent_parser = IntelligentLogParser
    /\ tasks = [task \in Tasks |-> Idle]
    /\ parser_states = EmptyMap
    /\ csv_file = <<>>
    /\ parsed_lines = EmptyMap
    /\ kill_events = <<>>
    /\ pvp_data = EmptyMap
    /\ lifecycle_parser = ConnectionLifecycleParser
    /\ sftp_pool = EmptyMap
    /\ sftp_call = NoCall
    /\ batch_sender = BatchSender
    /\ batch_tasks = <<>>
    /\ last_sent = EmptyMap

\* run_log_parser and the manual commands call parse_server_logs
ParseServerLogs(server_id, fetched) ==
    /\ runs < MaxRuns
    /\ SetLP(parse_server_logs(LP, server_id, log_file, dev_mode, fetched,
                               now, channels).lp)
    /\ runs' = runs + 1
    /\ UNCHANGED <<now, channels, calls, dev_mode, log_file,
                 resetvars, tasks, parser_states,
                   killvars,
                   lifecycle_parser,
                   sftpvars, batchvars>>

\* parse_logs_for_server calls parse_dev_logs in development mode
ParseDevLogs(server_id, fetched) ==
    /\ dev_mode
    /\ runs < MaxRuns
    /\ SetLP(parse_dev_logs(LP, server_id, log_file, fetched, now, channels).lp)
    /\ runs' = runs + 1
    /\ UNCHANGED <<now, channels, calls, dev_mode, log_file,
                 resetvars, tasks, parser_states,
                   killvars,
                   lifecycle_parser,
                   sftpvars, batchvars>>

AppendLine(line) ==
    /\ Len(log_file) < MaxFileLines
    /\ log_file' = Append(log_file, line)
    /\ UNCHANGED <<now, channels, cpvars, calls, lpvars, dev_mode, runs,
                 resetvars, tasks, parser_states,
                   killvars,
                   lifecycle_parser,
                   sftpvars, batchvars>>

\* the game server starts a new, empty log file
RotateFile ==
    /\ log_file # <<>>
    /\ log_file' = <<>>
    /\ UNCHANGED <<now, channels, cpvars, calls, lpvars, dev_mode, runs,
                 resetvars, tasks, parser_states,
                   killvars,
                   lifecycle_parser,
                   sftpvars, batchvars>>

NextIngest ==
    \/ \E s \in Servers, fetched \in BOOLEAN : ParseServerLogs(s, fetched)
    \/ \E s \in Servers, fetched \in BOOLEAN : ParseDevLogs(s, fetched)
    \/ \E line \in FileLines : AppendLine(line)
    \/ RotateFile
    \/ TickDay

SpecIngest == InitIngest /\ [][NextIngest]_vars

(***************************************************************************)
(* Specification of the file state tracking: the same ingestion runs over  *)
(* a log file of three shapes of lines, a join, a line that no pattern     *)
(* matches and an empty line, with the clock at rest.                      *)
(***************************************************************************)
TrackLines ==
    {Line("player_joined", "a1", None, 0), Line("unmatched", None, None, 0),
     BlankLine}

\* the files the game server can start after a rotation
TrackFiles ==
    UNION {[1..n -> TrackLines] : n \in 1..MaxFileLines}

NextTrack ==
    \/ \E s \in Servers, fetched \in BOOLEAN : ParseServerLogs(s, fetched)
    \/ \E s \in Servers, fetched \in BOOLEAN : ParseDevLogs(s, fetched)
    \/ \E line \in TrackLines : AppendLine(line)
    \/ RotateFile

\* the guild has its channels configured
InitTrack == InitIngest /\ channels # {}

SpecTrack == InitTrack /\ [][NextTrack]_vars

(***************************************************************************)
(* Specification of the cold start: the game server writes a few lines and *)
(* then a backlog of lines that no pattern matches, long enough for the    *)
(* window of the next run to exceed the cold start threshold whatever      *)
(* stored line count of a short file is applied to it.                     *)
(***************************************************************************)
ColdLines ==
    {Line("player_joined", "a1", None, 0), Line("disconnect", "a1", None, 0),
     WorldConnectLine}

backlog_lines == cold_start_threshold + MaxFileLines + 1

WriteBacklog ==
    /\ Len(log_file) <= MaxFileLines
    /\ log_file' = log_file \o [i \in 1..backlog_lines |->
                                   Line("unmatched", None, None, 0)]
    /\ UNCHANGED <<now, channels, cpvars, calls, lpvars, dev_mode, runs,
                   resetvars, tasks, parser_states,
                   killvars,
                   lifecycle_parser,
                   sftpvars, batchvars>>

NextCold ==
    \/ \E s \in Servers, fetched \in BOOLEAN : ParseServerLogs(s, fetched)
    \/ \E line \in ColdLines : AppendLine(line)
    \/ WriteBacklog
    \/ RotateFile

SpecCold == InitTrack /\ [][NextCold]_vars

(***************************************************************************)
(* Specification of the callers: the scheduler job and a slash command are *)
(* coroutines of one event loop, and each call of parse_server_logs runs   *)
(* from one await that suspends to the next.  The fetch awaits the SFTP    *)
(* server; a line awaits the database and Discord when it applies a        *)
(* transition or yields an event, after the parsers have been updated; a   *)
(* line that does neither runs through.  No lock is taken on the way.      *)
(***************************************************************************)
TaskLines ==
    {Line("player_joined", "a1", None, 0), Line("disconnect", "a1", None, 0),
     Line("unmatched", None, None, 0)}

\* one line has run: the loop stops at its await, or goes on
RECURSIVE run_to_await(_, _, _, _, _)
after_line(run, rest, server_key, t, ch) ==
    IF run.new_events + run.transitions > 0
    THEN [lp |-> run.lp, window |-> rest, suspended |-> TRUE]
    ELSE run_to_await(run.lp, rest, server_key, t, ch)

\* the loop over the lines of a window, up to the first line that suspends
run_to_await(lp, lines, server_key, t, ch) ==
    IF lines = <<>> THEN [lp |-> lp, window |-> <<>>, suspended |-> FALSE]
    ELSE after_line(process_lines(Run(lp, 0, 0, 0), <<Head(lines)>>,
                                  server_key, t, ch),
                    Tail(lines), server_key, t, ch)

\* where the loop stands: at an await, or at its end, and then the file
\* state is stored under the guild's key
at_await(r, task, server_key) ==
    IF r.suspended
    THEN [lp |-> r.lp, task |-> [task EXCEPT !.pc = "lines",
                                             !.window = r.window]]
    ELSE [lp |-> [r.lp EXCEPT !.file_states =
                     update_file_state(@, server_key, task.content.size,
                                       Len(task.content.lines),
                                       task.content.lines[Len(task.content.lines)])],
          task |-> Idle]

\* the hot path from where it stands
resume(lp, task, t, ch) ==
    at_await(run_to_await(lp, task.window, get_server_status_key(task.server_id),
                          t, ch),
             task, get_server_status_key(task.server_id))

\* parse_server_logs once the fetch has returned
with_content(lp, got, task, server_key, t, ch) ==
    IF not_content(got.content) \/ blank_content(got.content)
    THEN [lp |-> [lp EXCEPT !.file_states = got.file_states], task |-> Idle]
    ELSE IF Len(got.content.lines) > cold_start_threshold
    THEN [lp |-> cold_start([lp EXCEPT !.file_states = got.file_states],
                            server_key, got.content, ch).lp,
          task |-> Idle]
    ELSE resume([lp EXCEPT !.file_states = got.file_states],
                [task EXCEPT !.window = got.content.lines,
                             !.content = got.content], t, ch)

fetched_content(lp, task, server_id, file, dev, fetched, t, ch) ==
    with_content(lp,
                 IF dev
                 THEN [content |-> get_dev_log_content(file, fetched),
                       file_states |-> lp.file_states]
                 ELSE get_sftp_log_content(lp.file_states, server_id, file, fetched),
                 task, get_server_status_key(server_id), t, ch)

\* the parser and the call after a step of the call
SetTask(task, r) ==
    /\ SetLP(r.lp)
    /\ tasks' = [tasks EXCEPT ![task] = r.task]

\* a caller enters parse_server_logs and awaits the text of the log
StartIngestion(task, server_id) ==
    /\ tasks[task].pc = "idle"
    /\ runs < MaxRuns
    /\ tasks' = [tasks EXCEPT ![task] = [Idle EXCEPT !.pc = "fetch",
                                                     !.server_id = server_id]]
    /\ runs' = runs + 1
    /\ UNCHANGED <<now, channels, cpvars, calls, lpvars, dev_mode, log_file,
                   resetvars, parser_states,
                   killvars,
                   lifecycle_parser,
                   sftpvars, batchvars>>

\* the text arrives, or the fetch fails
FetchContent(task, fetched) ==
    /\ tasks[task].pc = "fetch"
    /\ SetTask(task, fetched_content(LP, tasks[task], tasks[task].server_id,
                                     log_file, dev_mode, fetched, now, channels))
    /\ UNCHANGED <<now, channels, calls, dev_mode, log_file, runs, resetvars,
                   parser_states,
                   killvars,
                   lifecycle_parser,
                   sftpvars, batchvars>>

\* the await of a line returns
ResumeLines(task) ==
    /\ tasks[task].pc = "lines"
    /\ SetTask(task, resume(LP, tasks[task], now, channels))
    /\ UNCHANGED <<now, channels, calls, dev_mode, log_file, runs, resetvars,
                   parser_states,
                   killvars,
                   lifecycle_parser,
                   sftpvars, batchvars>>

NextTasks ==
    \/ \E task \in Tasks, s \in Servers : StartIngestion(task, s)
    \/ \E task \in Tasks, fetched \in BOOLEAN : FetchContent(task, fetched)
    \/ \E task \in Tasks : ResumeLines(task)
    \/ \E line \in TaskLines : AppendLine(line)

SpecTasks == InitTrack /\ [][NextTasks]_vars

(***************************************************************************)
(* Specification of the restart: run_log_parser saves the file states to   *)
(* the database after its loop over the servers, and a new LogParser loads *)
(* them.  The load is taken to end before the first run of the new         *)
(* process, and the configured server_id to be the id the runs use.        *)
(***************************************************************************)
\* _save_persistent_state: one document per configured server whose guild
\* key has a file state, with the keys the function names
save_persistent_state(fs, docs) ==
    [s \in {s \in Servers : get_server_status_key(s) \in DOMAIN fs}
        |-> LET state_data == fs[get_server_status_key(s)]
            IN [file_size |-> state_get(state_data, "file_size", 0),
                last_position |-> state_get(state_data, "last_position", 0),
                last_line |-> state_get(state_data, "last_line", BlankLine)]]
    @@ docs

\* _load_persistent_state: a file state under the guild key for every
\* configured server that has a document
load_persistent_state(docs) ==
    [k \in {get_server_status_key(s) : s \in DOMAIN docs}
        |-> LET state == docs[k[2]]
            IN [file_size |-> state_get(state, "file_size", 0),
                last_position |-> state_get(state, "last_position", 0),
                last_line |-> state_get(state, "last_line", BlankLine)]]

\* LogParser.__init__ followed by the load
LogParser(lp, docs) ==
    [cp |-> [lp.cp EXCEPT !.player_states = EmptyMap,
                          !.server_counts = EmptyMap],
     file_states |-> load_persistent_state(docs),
     server_status |-> EmptyMap,
     last_cleanup |-> -1,
     intelligent_parser |-> IntelligentLogParser]

\* the parser after the loop over the servers, and what the save writes
SetSaved(lp) ==
    /\ SetLP(lp)
    /\ parser_states' = save_persistent_state(lp.file_states, parser_states)

\* the scheduler job and /manual_log_parse: every server, then the save
RunLogParser(server_id, fetched) ==
    /\ runs < MaxRuns
    /\ SetSaved(parse_server_logs(LP, server_id, log_file, dev_mode, fetched,
                                  now, channels).lp)
    /\ runs' = runs + 1
    /\ UNCHANGED <<now, channels, calls, dev_mode, log_file, resetvars, tasks,
                   killvars,
                   lifecycle_parser,
                   sftpvars, batchvars>>

\* the bot process ends and a new one starts
Restart ==
    /\ SetLP(LogParser(LP, parser_states))
    /\ UNCHANGED <<now, channels, calls, dev_mode, log_file, runs, resetvars,
                   tasks, parser_states,
                   killvars,
                   lifecycle_parser,
                   sftpvars, batchvars>>

NextRestart ==
    \/ \E s \in Servers, fetched \in BOOLEAN : RunLogParser(s, fetched)
    \/ \E s \in Servers, fetched \in BOOLEAN : ParseDevLogs(s, fetched)
    \/ \E line \in TrackLines : AppendLine(line)
    \/ Restart

SpecRestart == InitTrack /\ [][NextRestart]_vars

(***************************************************************************)
(* Specification of the reset detection alone: a stored file state and a   *)
(* current text are drawn, and _detect_file_reset is applied to them.  The *)
(* lengths of the lines are left open: a text without lines is empty, and  *)
(* a text of n lines has at least n bytes, the line ends included.         *)
(***************************************************************************)
\* the last line of the stored state, and the lines of the current text
StoredLastLines == {Line("mission_ready", None, None, 0), BlankLine}
CurrentLines ==
    {Line("mission_ready", None, None, 0), Line("player_joined", "a1", None, 0)}

\* the states _update_file_state can have stored for a text that has lines
StoredStates ==
    {st \in [file_size : 0..MaxSize, line_count : 1..MaxStoredLines,
             last_line : StoredLastLines] : st.file_size >= st.line_count}

InitReset ==
    /\ now = 0
    /\ channels = {}
    /\ player_states = EmptyMap
    /\ server_counts = EmptyMap
    /\ notifications = <<>>
    /\ voice_label = EmptyMap
    /\ calls = 0
    /\ dev_mode = FALSE
    /\ log_file \in UNION {[1..n -> CurrentLines] : n \in 0..MaxFileLines}
    /\ file_states \in
         {EmptyMap} \cup {sftp_server_key(s) :> st : s \in Servers, st \in StoredStates}
    /\ server_status = EmptyMap
    /\ last_cleanup = -1
    /\ runs = 0
    /\ reset_size \in {n \in 0..MaxSize : IF log_file = <<>> THEN n = 0
                                           ELSE n >= 2 * Len(log_file) - 1}
    /\ reset_detected = None
    /\ intelligent_parser = IntelligentLogParser
    /\ tasks = [task \in Tasks |-> Idle]
    /\ parser_states = EmptyMap
    /\ csv_file = <<>>
    /\ parsed_lines = EmptyMap
    /\ kill_events = <<>>
    /\ pvp_data = EmptyMap
    /\ lifecycle_parser = ConnectionLifecycleParser
    /\ sftp_pool = EmptyMap
    /\ sftp_call = NoCall
    /\ batch_sender = BatchSender
    /\ batch_tasks = <<>>
    /\ last_sent = EmptyMap

\* one call of _detect_file_reset on the drawn inputs
DetectFileReset(server_id) ==
    /\ reset_detected = None
    /\ reset_detected' =
         IF detect_file_reset(file_states, sftp_server_key(server_id),
                              reset_size, log_file)
         THEN "RESET" ELSE "CONTINUE"
    /\ UNCHANGED <<now, channels, cpvars, calls, lpvars, filevars, reset_size,
                   tasks, parser_states, killvars,
                   lifecycle_parser,
                   sftpvars, batchvars>>

NextReset == \E s \in Servers : DetectFileReset(s)

SpecReset == InitReset /\ [][NextReset]_vars

(***************************************************************************)
(* KillfeedParser and the statistics of the database.  A CSV line is the   *)
(* fields the parser reads of it, as texts: killer, victim, weapon and     *)
(* distance.  Distances are whole metres, on which round(distance, 1) is   *)
(* the identity, and a kdr is the fraction num / den.                      *)
(***************************************************************************)
CsvLine(killer, victim, weapon, distance) ==
    [killer |-> killer, victim |-> victim, weapon |-> weapon,
     distance |-> distance]

\* str.lower() on the weapon texts
lower(weapon) ==
    CASE weapon = "Suicide_by_relocation" -> "suicide_by_relocation"
      [] weapon = "Falling" -> "falling"
      [] weapon = "AK" -> "ak"
      [] OTHER -> weapon

\* float(text): the texts it accepts, and their values; it raises ValueError
\* on every other text
float_texts == {"-5", "120", "300", "5000", "99999"}
float(text) ==
    CASE text = "-5" -> -5
      [] text = "120" -> 120
      [] text = "300" -> 300
      [] text = "5000" -> 5000
      [] text = "99999" -> 99999

\* parse_csv_line returns None for a line without a name: ok is FALSE
parse_csv_line(line) ==
    IF line.killer = "" \/ line.victim = "" THEN [ok |-> FALSE]
    ELSE LET is_suicide == \/ line.killer = line.victim
                           \/ lower(line.weapon) = "suicide_by_relocation"
         IN [ok |-> TRUE, killer |-> line.killer, victim |-> line.victim,
             weapon |-> IF ~is_suicide THEN line.weapon
                        ELSE IF lower(line.weapon) = "suicide_by_relocation"
                        THEN "Menu Suicide"
                        ELSE IF lower(line.weapon) = "falling" THEN "Falling"
                        ELSE "Suicide",
             distance |-> IF line.distance # "" /\ line.distance # "N/A"
                             /\ line.distance \in float_texts
                          THEN float(line.distance) ELSE 0,
             is_suicide |-> is_suicide, raw_line |-> line]

\* a distance that is stored as it was read
unclamped_distance(distance) == distance

\* max(0.0, min(distance, 5000.0))
clamp_distance(distance) ==
    IF distance > 5000 THEN 5000 ELSE IF distance < 0 THEN 0 ELSE distance

add_kill_event(events, kill_data) ==
    Append(events, [killer |-> kill_data.killer, victim |-> kill_data.victim,
                    weapon |-> kill_data.weapon,
                    distance |-> clamp_distance(kill_data.distance),
                    is_suicide |-> kill_data.is_suicide,
                    raw_line |-> kill_data.raw_line])

\* the document an upsert or an insert starts from
NewStats ==
    [kills |-> 0, deaths |-> 0, suicides |-> 0, kdr |-> [num |-> 0, den |-> 1],
     total_distance |-> 0, longest_streak |-> 0, current_streak |-> 0,
     personal_best_distance |-> 0]

\* a kdr that is computed when the document is created and never again
update_kdr_once(db, player_name) ==
    IF player_name \notin DOMAIN db THEN db
    ELSE IF db[player_name].kills + db[player_name].deaths > 1 THEN db
    ELSE [db EXCEPT ![player_name].kdr =
             [num |-> db[player_name].kills,
              den |-> IF db[player_name].deaths > 0
                      THEN db[player_name].deaths ELSE 1]]

\* kdr = kills / max(deaths, 1) if deaths > 0 else float(kills)
update_kdr(db, player_name) ==
    IF player_name \notin DOMAIN db THEN db
    ELSE [db EXCEPT ![player_name].kdr =
             [num |-> db[player_name].kills,
              den |-> IF db[player_name].deaths > 0
                      THEN db[player_name].deaths ELSE 1]]

\* $set of the fields of the update in a document
set_fields(doc, update) ==
    [f \in DOMAIN doc \cup DOMAIN update |->
        IF f \in DOMAIN update THEN update[f] ELSE doc[f]]

update_pvp_stats(db, player_name, stats_update) ==
    LET known == player_name \in DOMAIN db
        doc == IF known THEN db[player_name] ELSE NewStats
        field == CHOOSE f \in DOMAIN stats_update : TRUE
    IN IF Cardinality(DOMAIN stats_update) = 1
       THEN IF field \in {"kills", "deaths", "suicides", "longest_streak",
                          "current_streak", "total_distance"}
            THEN IF field \in {"kills", "deaths"}
                 THEN update_kdr((player_name :> [doc EXCEPT ![field] =
                                     @ + stats_update[field]]) @@ db, player_name)
                 ELSE (player_name :> [doc EXCEPT ![field] =
                                          @ + stats_update[field]]) @@ db
            ELSE (player_name :> IF known THEN set_fields(doc, stats_update)
                                 ELSE stats_update) @@ db
       ELSE IF "kills" \in DOMAIN stats_update \/ "deaths" \in DOMAIN stats_update
       THEN update_kdr((player_name :> set_fields(doc, stats_update)) @@ db,
                       player_name)
       ELSE (player_name :> set_fields(doc, stats_update)) @@ db

reset_player_streak(db, player_name) ==
    IF player_name \notin DOMAIN db THEN db
    ELSE [db EXCEPT ![player_name].current_streak = 0]

\* when the player has no document and the distance is positive, the test of
\* the personal best raises AttributeError on None and the handler of the
\* function ends it: the kill and the distance are counted, the streak not
increment_player_kill(db, player_name, distance) ==
    LET d == clamp_distance(distance)
        known == player_name \in DOMAIN db
        new_streak == (IF known THEN db[player_name].current_streak ELSE 0) + 1
        stored_longest == IF known THEN db[player_name].longest_streak ELSE 0
        update_data ==
            ("current_streak" :> new_streak)
            @@ ("longest_streak" :> IF stored_longest > new_streak
                                    THEN stored_longest ELSE new_streak)
        counted == IF d > 0
                   THEN update_pvp_stats(
                            update_pvp_stats(db, player_name, "kills" :> 1),
                            player_name, "total_distance" :> d)
                   ELSE update_pvp_stats(db, player_name, "kills" :> 1)
    IN IF d > 0 /\ ~known THEN counted
       ELSE update_pvp_stats(counted, player_name,
                IF d > 0 /\ d > db[player_name].personal_best_distance
                THEN ("personal_best_distance" :> d) @@ update_data
                ELSE update_data)

increment_player_death(db, player_name) ==
    reset_player_streak(update_pvp_stats(db, player_name, "deaths" :> 1),
                        player_name)

\* the embed of a kill: fall, suicide or killfeed
send_killfeed_embed(notes, kill_data, server_key, ch) ==
    IF "killfeed" \notin ch THEN notes
    ELSE Append(notes,
                [type |-> IF ~kill_data.is_suicide THEN "killfeed"
                          ELSE IF kill_data.weapon = "Falling" THEN "fall"
                          ELSE "suicide",
                 connection_id |-> None, player_id |-> kill_data.victim,
                 server_key |-> server_key])

\* the state of the killfeed: the lines parsed for the server, the two
\* collections and the embeds sent
KF == [parsed_lines |-> parsed_lines, kill_events |-> kill_events,
       pvp_data |-> pvp_data, notifications |-> notifications]

\* the third argument of the call of increment_player_kill, which the
\* function takes as the player_name, is the distance of the kill: the
\* document is filed under that number, written as its text here, and the
\* distance parameter keeps its default 0.0
process_kill_event(kf, kill_data, server_key, ch) ==
    [kf EXCEPT
        !.kill_events = add_kill_event(@, kill_data),
        !.pvp_data =
            IF kill_data.is_suicide
            THEN reset_player_streak(
                     update_pvp_stats(@, kill_data.victim, "suicides" :> 1),
                     kill_data.victim)
            ELSE increment_player_death(
                     increment_player_kill(@, ToString(kill_data.distance), 0),
                     kill_data.victim),
        !.notifications = send_killfeed_embed(@, kill_data, server_key, ch)]

\* the loop of parse_server_killfeed over the lines
RECURSIVE parse_killfeed_lines(_, _, _, _)
parse_killfeed_lines(kf, lines, server_key, ch) ==
    IF lines = <<>> THEN kf
    ELSE IF Head(lines) \in kf.parsed_lines[server_key]
            \/ ~parse_csv_line(Head(lines)).ok
    THEN parse_killfeed_lines(kf, Tail(lines), server_key, ch)
    ELSE parse_killfeed_lines(
             [process_kill_event(kf, parse_csv_line(Head(lines)), server_key, ch)
                 EXCEPT !.parsed_lines[server_key] = @ \cup {Head(lines)}],
             Tail(lines), server_key, ch)

\* a cycle that starts with no line remembered
parse_server_killfeed_forgetful(kf, server_id, file, fetched, ch) ==
    IF ~fetched \/ file = <<>> THEN kf
    ELSE parse_killfeed_lines(
             [kf EXCEPT !.parsed_lines =
                 (get_server_status_key(server_id) :> {}) @@ @],
             file, get_server_status_key(server_id), ch)

\* a fetch that fails, and a file without lines, give no lines
parse_server_killfeed(kf, server_id, file, fetched, ch) ==
    IF ~fetched \/ file = <<>> THEN kf
    ELSE parse_killfeed_lines(
             [kf EXCEPT !.parsed_lines =
                 IF get_server_status_key(server_id) \in DOMAIN @ THEN @
                 ELSE (get_server_status_key(server_id) :> {}) @@ @],
             file, get_server_status_key(server_id), ch)

(***************************************************************************)
(* Specification of the killfeed: the game server writes kills to the CSV  *)
(* file and starts new files, and the cycles of the parser read the most   *)
(* recent file.                                                            *)
(***************************************************************************)
\* a kill of Al, a kill of Bo beyond the range, a suicide from the menu, a
\* fall, and a line without the name of the killer
CsvLines ==
    {CsvLine("Al", "Bo", "AK", "120"), CsvLine("Bo", "Al", "AK", "99999"),
     CsvLine("Al", "Al", "Suicide_by_relocation", ""),
     CsvLine("Bo", "Bo", "falling", "N/A"),
     CsvLine("", "Bo", "AK", "120")}

SetKF(kf) ==
    /\ parsed_lines' = kf.parsed_lines
    /\ kill_events' = kf.kill_events
    /\ pvp_data' = kf.pvp_data
    /\ notifications' = kf.notifications

\* the bot reads over SFTP
InitKill == InitIngest /\ ~dev_mode

\* the game server writes a kill to the CSV file
AppendCsv(line) ==
    /\ Len(csv_file) < MaxCsvLines
    /\ csv_file' = Append(csv_file, line)
    /\ UNCHANGED <<now, channels, cpvars, calls, lpvars, filevars, resetvars,
                   tasks, parser_states, parsed_lines, kill_events, pvp_data,
                   lifecycle_parser,
                   sftpvars, batchvars>>

\* the game server starts a new CSV file, the most recent one from now on
NewCsvFile ==
    /\ csv_file # <<>>
    /\ csv_file' = <<>>
    /\ UNCHANGED <<now, channels, cpvars, calls, lpvars, filevars, resetvars,
                   tasks, parser_states, parsed_lines, kill_events, pvp_data,
                   lifecycle_parser,
                   sftpvars, batchvars>>

\* a cycle of run_killfeed_parser for the server
ParseServerKillfeed(server_id, fetched) ==
    /\ runs < MaxRuns
    /\ SetKF(parse_server_killfeed(KF, server_id, csv_file, fetched, channels))
    /\ runs' = runs + 1
    /\ UNCHANGED <<now, channels, player_states, server_counts, voice_label,
                   calls, lpvars, dev_mode, log_file, resetvars, tasks,
                   parser_states, csv_file,
                   lifecycle_parser,
                   sftpvars, batchvars>>

NextKill ==
    \/ \E s \in Servers, fetched \in BOOLEAN : ParseServerKillfeed(s, fetched)
    \/ \E line \in CsvLines : AppendCsv(line)
    \/ NewCsvFile

SpecKill == InitKill /\ [][NextKill]_vars

(***************************************************************************)
(* Vocabulary of the properties                                            *)
(***************************************************************************)
\* get_server_stats: the counts of a server, zero when it is not tracked
get_server_stats(cp, server_key) ==
    IF server_key \notin DOMAIN cp.server_counts
    THEN [queue_count |-> 0, player_count |-> 0]
    ELSE cp.server_counts[server_key]

\* the player records of a server, none when it is not tracked
StatesAt(cp, server_key) ==
    IF server_key \in DOMAIN cp.player_states
    THEN cp.player_states[server_key] ELSE EmptyMap

\* the result of feeding a line to the parser in the current state
Fed(line, server_key) ==
    parse_connection_event(CP, line, server_key, now, channels)

IdLines == {l \in Lines : l.id \in Players}
DisconnectKinds == {"disconnect", "disconnect_alt", "beacon_disconnect"}

\* the event of the transition table (section 4.3) that a line requests
TableEvent(line) ==
    IF line.kind \in DisconnectKinds THEN "disconnect" ELSE line.kind

\* the transition table of section 4.3: <<event, valid from, new state>>
TransitionTable ==
    {<<"queue_join", from, "QUEUED">> : from \in {"OFFLINE", "DISCONNECTED"}}
    \cup {<<"beacon_join", from, "CONNECTING">> :
            from \in {"OFFLINE", "QUEUED", "DISCONNECTED"}}
    \cup {<<"player_joined", from, "JOINED">> :
            from \in {"OFFLINE", "QUEUED", "CONNECTING", "DISCONNECTED"}}
    \cup {<<"disconnect", from, "DISCONNECTED">> :
            from \in {"QUEUED", "CONNECTING", "JOINED"}}

\* the event_type under which the code records a line of that shape
LineEventType(line) ==
    IF line.kind = "disconnect_alt" THEN "disconnect" ELSE line.kind

\* the state a player is in before a call: a record that does not exist yet
\* is created in OFFLINE
StateBefore(states, p) ==
    IF p \in DOMAIN states THEN states[p].current_state ELSE "OFFLINE"

JoinsOf(notes, p) ==
    SelectSeq(notes, LAMBDA n : n.type = "player_join" /\ n.player_id = p)

LeavesOf(notes, p) ==
    SelectSeq(notes, LAMBDA n : n.type = "player_leave" /\ n.player_id = p)

(***************************************************************************)
(* C1  Every change of a player's current_state made by                    *)
(* parse_connection_event follows the transition table: the line names     *)
(* that player, and <<event, state before, state after>> is a row of the   *)
(* table.  The cleanup sweep and the reset change no record they keep.     *)
(***************************************************************************)
C1_TransitionsFollowTable ==
    \A k \in ServerKeys :
        /\ \A line \in Lines :
             LET before == StatesAt(CP, k)
                 after == StatesAt(Fed(line, k).cp, k)
             IN /\ DOMAIN before \subseteq DOMAIN after
                /\ \A p \in DOMAIN after :
                     StateBefore(before, p) # after[p].current_state
                     => /\ p = line.id
                        /\ <<TableEvent(line), StateBefore(before, p),
                             after[p].current_state>> \in TransitionTable
        /\ \A cp \in {cleanup_old_states(CP, now), reset_server_counts(CP, k)} :
             \A p \in DOMAIN StatesAt(cp, k) :
                 /\ p \in DOMAIN StatesAt(CP, k)
                 /\ StatesAt(cp, k)[p] = StatesAt(CP, k)[p]

\* a player that went OFFLINE -> QUEUED -> CONNECTING -> JOINED, where a
\* further beacon_join is refused
C1_Witness ==
    \E k \in ServerKeys : \E p \in DOMAIN StatesAt(CP, k) :
        /\ StatesAt(CP, k)[p].current_state = "JOINED"
        /\ Len(StatesAt(CP, k)[p].state_transitions) = 3
        /\ Fed(Line("beacon_join", p, None, 0), k).diag = "invalid"

(***************************************************************************)
(* C2  After every call the stored queue_count is the number of QUEUED     *)
(* players of the server and the stored player_count the number of JOINED  *)
(* players.                                                                *)
(***************************************************************************)
C2_CountersMatchScan ==
    \A k \in DOMAIN server_counts :
        /\ server_counts[k].queue_count = CountInState(StatesAt(CP, k), "QUEUED")
        /\ server_counts[k].player_count = CountInState(StatesAt(CP, k), "JOINED")

(***************************************************************************)
(* C3  An event of the same event_type as the player's last applied event, *)
(* arriving inside the suppression window, is dropped as a duplicate (not  *)
(* as an invalid transition) and changes nothing.  Two player_joined lines *)
(* for one id inside the window make one transition into JOINED: one more  *)
(* state_transitions entry, player_count raised once, at most one join     *)
(* notification.                                                           *)
(***************************************************************************)
C3_DuplicateSuppressed ==
    \A k \in ServerKeys :
        /\ \A line \in IdLines :
             LET states == StatesAt(CP, k)
             IN (/\ line.id \in DOMAIN states
                 /\ states[line.id].last_event_type = LineEventType(line)
                 /\ now - states[line.id].last_event_time < time_threshold)
                => /\ Fed(line, k).diag = "duplicate"
                   /\ Fed(line, k).cp = CP
        /\ \A p \in Players : \A t \in {now, now + time_threshold - 1} :
             LET line == Line("player_joined", p, None, 0)
                 first == Fed(line, k)
                 second == parse_connection_event(first.cp, line, k, t, channels)
                 before == StatesAt(CP, k)
                 entries == IF p \in DOMAIN before
                            THEN Len(before[p].state_transitions) ELSE 0
                 rec == StatesAt(second.cp, k)[p]
             IN first.diag = "applied"
                => /\ second.diag = "duplicate"
                   /\ second.cp = first.cp
                   /\ Len(rec.state_transitions) = entries + 1
                   /\ rec.state_transitions[entries + 1].to_state = "JOINED"
                   /\ get_server_stats(second.cp, k).player_count
                        = get_server_stats(CP, k).player_count + 1
                   /\ Len(JoinsOf(second.cp.notifications, p))
                        <= Len(JoinsOf(notifications, p)) + 1

\* a player that has just joined, for whom a second player_joined line is a
\* duplicate
C3_Witness ==
    \E k \in ServerKeys : \E p \in DOMAIN StatesAt(CP, k) :
        LET rec == StatesAt(CP, k)[p]
        IN /\ rec.current_state = "JOINED"
           /\ rec.last_event_type = "player_joined"
           /\ now - rec.last_event_time < time_threshold
           /\ Len(rec.state_transitions) = 1
           /\ server_counts[k].player_count = 1
           /\ Fed(Line("player_joined", p, None, 0), k).diag = "duplicate"

(***************************************************************************)
(* C4  A player_joined line for an id that is unknown, or whose record is  *)
(* in OFFLINE, is applied: the player goes OFFLINE -> JOINED and the       *)
(* player_count grows by exactly one.                                      *)
(***************************************************************************)
C4_DirectJoin ==
    \A k \in ServerKeys : \A p \in Players :
        LET before == StatesAt(CP, k)
            r == Fed(Line("player_joined", p, None, 0), k)
            rec == StatesAt(r.cp, k)[p]
        IN (p \notin DOMAIN before \/ before[p].current_state = "OFFLINE")
           => /\ r.diag = "applied"
              /\ rec.current_state = "JOINED"
              /\ rec.state_transitions[Len(rec.state_transitions)].from_state
                    = "OFFLINE"
              /\ rec.state_transitions[Len(rec.state_transitions)].to_state
                    = "JOINED"
              /\ get_server_stats(r.cp, k).player_count
                    = get_server_stats(CP, k).player_count + 1

\* a player whose only transition is OFFLINE -> JOINED, next to a record
\* left in OFFLINE by an unmatched disconnect
C4_Witness ==
    \E k \in ServerKeys : \E p, q \in DOMAIN StatesAt(CP, k) :
        LET rec == StatesAt(CP, k)[p]
        IN /\ rec.current_state = "JOINED"
           /\ Len(rec.state_transitions) = 1
           /\ rec.state_transitions[1].from_state = "OFFLINE"
           /\ server_counts[k].player_count = 1
           /\ StatesAt(CP, k)[q].current_state = "OFFLINE"

(***************************************************************************)
(* C5  Disconnect gating.  A disconnect applied to a QUEUED or CONNECTING  *)
(* player makes it DISCONNECTED, recounts, and produces no leave           *)
(* notification; a disconnect applied to a JOINED player produces one      *)
(* leave notification; no other call produces a leave notification.        *)
(***************************************************************************)
NewLeaves(line, k) ==
    Len(LeavesOf(Fed(line, k).cp.notifications, line.id))
    - Len(LeavesOf(notifications, line.id))

Recounted(cp, k) ==
    /\ get_server_stats(cp, k).queue_count = CountInState(StatesAt(cp, k), "QUEUED")
    /\ get_server_stats(cp, k).player_count = CountInState(StatesAt(cp, k), "JOINED")

\* what every line does to the leave notifications, given the number a
\* disconnect applied to a JOINED player must produce
DisconnectGating(expected(_)) ==
    \A k \in ServerKeys : \A line \in Lines :
        LET before == StatesAt(CP, k)
            r == Fed(line, k)
            disconnects == /\ line.kind \in DisconnectKinds
                           /\ line.id \in DOMAIN before
                           /\ r.diag = "applied"
        IN /\ (disconnects /\ before[line.id].current_state \in {"QUEUED", "CONNECTING"})
              => /\ StatesAt(r.cp, k)[line.id].current_state = "DISCONNECTED"
                 /\ Recounted(r.cp, k)
                 /\ r.cp.notifications = notifications
           /\ (disconnects /\ before[line.id].current_state = "JOINED")
              => /\ StatesAt(r.cp, k)[line.id].current_state = "DISCONNECTED"
                 /\ Recounted(r.cp, k)
                 /\ NewLeaves(line, k) = expected(before[line.id])
                 /\ Len(r.cp.notifications) = Len(notifications) + expected(before[line.id])
           /\ SelectSeq(r.cp.notifications, LAMBDA n : n.type = "player_leave")
                # SelectSeq(notifications, LAMBDA n : n.type = "player_leave")
              => (disconnects /\ before[line.id].current_state = "JOINED")

\* the claim as stated: every disconnect applied to a JOINED player notifies
C5_LeaveForEveryJoined ==
    DisconnectGating(LAMBDA rec : 1)

\* amended: the leave notification needs a display name and a connections
\* channel
C5_DisconnectGating ==
    DisconnectGating(LAMBDA rec : IF rec.player_name # None /\ "connections" \in channels
                                  THEN 1 ELSE 0)

\* a named player that left after joining, with its leave notification
C5_Witness ==
    \E k \in ServerKeys : \E p \in DOMAIN StatesAt(CP, k) :
        LET rec == StatesAt(CP, k)[p]
        IN /\ rec.current_state = "DISCONNECTED"
           /\ rec.state_transitions[Len(rec.state_transitions)].from_state = "JOINED"
           /\ rec.player_name # None
           /\ Len(LeavesOf(notifications, p)) = 1

(***************************************************************************)
(* C6  Join-notification gating.  A join notification is produced only by  *)
(* a player_joined line whose transition into JOINED was applied, for a    *)
(* player with a display name, and it carries that name.  Without a name   *)
(* the transition still applies and player_count still grows, without a    *)
(* notification.  A suppressed or rejected player_joined notifies nobody.  *)
(***************************************************************************)
C6_JoinNotificationGating ==
    \A k \in ServerKeys : \A line \in Lines :
        LET before == StatesAt(CP, k)
            r == Fed(line, k)
            after == StatesAt(r.cp, k)
            joins(notes) == SelectSeq(notes, LAMBDA n : n.type = "player_join")
            notified == joins(r.cp.notifications) # joins(notifications)
        IN /\ notified
              => /\ line.kind = "player_joined"
                 /\ r.diag = "applied"
                 /\ after[line.id].current_state = "JOINED"
                 /\ after[line.id].player_name # None
                 /\ r.cp.notifications =
                        Append(notifications,
                               [type |-> "player_join",
                                connection_id |-> after[line.id].player_name,
                                player_id |-> line.id,
                                server_key |-> k])
           /\ (line.kind = "player_joined" /\ r.diag = "applied"
               /\ after[line.id].player_name = None)
              => /\ after[line.id].current_state = "JOINED"
                 /\ get_server_stats(r.cp, k).player_count
                        = get_server_stats(CP, k).player_count + 1
                 /\ r.cp.notifications = notifications
           /\ (line.kind = "player_joined" /\ r.diag # "applied")
              => r.cp.notifications = notifications

\* with a connections channel configured: a named player that joined and
\* was announced, and a nameless player that joined unannounced
C6_Witness ==
    \E k \in ServerKeys : \E p, q \in DOMAIN StatesAt(CP, k) :
        /\ "connections" \in channels
        /\ StatesAt(CP, k)[p].current_state = "JOINED"
        /\ StatesAt(CP, k)[p].player_name # None
        /\ Len(JoinsOf(notifications, p)) = 1
        /\ StatesAt(CP, k)[q].current_state = "JOINED"
        /\ StatesAt(CP, k)[q].player_name = None
        /\ Len(JoinsOf(notifications, q)) = 0
        /\ server_counts[k].player_count = 2

(***************************************************************************)
(* C7  End-to-end lifecycle.  When the only lines fed since the start are  *)
(* queue_join(A, Bob), beacon_join(A), player_joined(A), in that order,    *)
(* A is JOINED, player_count = 1, queue_count = 0 and there is exactly one *)
(* join notification, with connection_id = Bob.                            *)
(***************************************************************************)
EventsOf(rec) ==
    [i \in 1..Len(rec.state_transitions) |-> rec.state_transitions[i].event_type]

\* the three lines were fed for player p of server k, and nothing else
LifecycleRan(k, p) ==
    /\ p \in DOMAIN StatesAt(CP, k)
    /\ calls = 3
    /\ EventsOf(StatesAt(CP, k)[p]) = <<"queue_join", "beacon_join", "player_joined">>

JoinNotice(k, p) ==
    [type |-> "player_join", connection_id |-> "Bob", player_id |-> p,
     server_key |-> k]

LifecycleEnds(k, p, notes) ==
    /\ StatesAt(CP, k)[p].current_state = "JOINED"
    /\ server_counts[k].player_count = 1
    /\ server_counts[k].queue_count = 0
    /\ notifications = notes

\* the claim as stated: the join notification is always there
C7_LifecycleAlwaysNotifies ==
    \A k \in ServerKeys : \A p \in Players :
        LifecycleRan(k, p) => LifecycleEnds(k, p, <<JoinNotice(k, p)>>)

\* amended: the join notification is there when the guild has a connections
\* channel, and there is none otherwise
C7_Lifecycle ==
    \A k \in ServerKeys : \A p \in Players :
        LifecycleRan(k, p)
        => LifecycleEnds(k, p, IF "connections" \in channels
                               THEN <<JoinNotice(k, p)>> ELSE <<>>)

C7_Witness ==
    \E k \in ServerKeys : \E p \in Players :
        /\ LifecycleRan(k, p)
        /\ notifications = <<JoinNotice(k, p)>>

(***************************************************************************)
(* C8  A request whose source state is not in the allowed set of the       *)
(* transition table is refused and is a no-op: current_state,              *)
(* last_event_time, last_event_type and state_transitions of the player,   *)
(* the server counts and the notifications are unchanged.                  *)
(***************************************************************************)
TableAllows(event, from) ==
    \E row \in TransitionTable : row[1] = event /\ row[2] = from

Untouched(a, b) ==
    /\ a.current_state = b.current_state
    /\ a.last_event_time = b.last_event_time
    /\ a.last_event_type = b.last_event_type
    /\ a.state_transitions = b.state_transitions

C8_RejectedIsNoOp ==
    \A k \in ServerKeys : \A line \in IdLines :
        LET before == StatesAt(CP, k)
            r == Fed(line, k)
            after == StatesAt(r.cp, k)
        IN /\ (line.id \in DOMAIN before
               /\ ~TableAllows(TableEvent(line), before[line.id].current_state))
              => /\ r.diag \in {"invalid", "duplicate"}
                 /\ Untouched(after[line.id], before[line.id])
                 /\ r.cp.server_counts = server_counts
                 /\ r.cp.notifications = notifications
                 /\ r.cp.voice_label = voice_label
           /\ r.diag = "invalid"
              => /\ line.id \in DOMAIN before
                 /\ ~TableAllows(TableEvent(line), before[line.id].current_state)
                 /\ Untouched(after[line.id], before[line.id])

\* a nameless JOINED player, some time after it joined, for whom a
\* queue_join line is refused
C8_Witness ==
    \E k \in ServerKeys : \E p \in DOMAIN StatesAt(CP, k) :
        /\ StatesAt(CP, k)[p].current_state = "JOINED"
        /\ StatesAt(CP, k)[p].player_name = None
        /\ now > StatesAt(CP, k)[p].last_event_time
        /\ Fed(Line("queue_join", p, "Bob", 0), k).diag = "invalid"

(***************************************************************************)
(* C9  No double counting: queue_count is the number of players whose last *)
(* applied event was queue_join or beacon_join and player_count the number *)
(* whose last applied event was player_joined.                             *)
(***************************************************************************)
LastEventIn(states, types) ==
    Cardinality({p \in DOMAIN states : states[p].last_event_type \in types})

C9_NoDoubleCounting ==
    \A k \in DOMAIN server_counts :
        /\ server_counts[k].queue_count
             = LastEventIn(StatesAt(CP, k), {"queue_join", "beacon_join"})
        /\ server_counts[k].player_count
             = LastEventIn(StatesAt(CP, k), {"player_joined"})

(***************************************************************************)
(* C10  Idempotent re-ingestion: when parse_server_logs runs twice in      *)
(* succession for a server on the same file content, the second run        *)
(* processes no line, applies no transition, finds no event and queues no  *)
(* notification.                                                           *)
(***************************************************************************)
\* the second of two successful runs of parse_server_logs on the log file
SecondRun(server_id) ==
    LET first == parse_server_logs(LP, server_id, log_file, dev_mode, TRUE,
                                   now, channels)
    IN [first |-> first,
        second |-> parse_server_logs(first.lp, server_id, log_file, dev_mode,
                                     TRUE, now, channels)]

C10_IdempotentReingestion ==
    \A s \in Servers :
        LET r == SecondRun(s)
        IN /\ r.second.processed_lines = 0
           /\ r.second.transitions = 0
           /\ r.second.new_events = 0
           /\ r.second.lp.cp.notifications = r.first.lp.cp.notifications

(***************************************************************************)
(* C11  Exactly-once line processing under growth: when the log file only  *)
(* grows by appended lines between two successful ingestion runs, the      *)
(* later run passes no line of the earlier file to the line classifier     *)
(* again: it processes at most the appended lines.                         *)
(***************************************************************************)
\* a successful run of parse_server_logs on the log file, and a second one
\* after the game server appended lines to it
GrowthRun(server_id, appended) ==
    LET first == parse_server_logs(LP, server_id, log_file, dev_mode, TRUE,
                                   now, channels)
    IN [first |-> first,
        second |-> parse_server_logs(first.lp, server_id, log_file \o appended,
                                     dev_mode, TRUE, now, channels)]

C11_ExactlyOnceUnderGrowth ==
    \A s \in Servers : \A line \in FileLines :
        GrowthRun(s, <<line>>).second.processed_lines <= 1

(***************************************************************************)
(* C12  No silent gap after rotation: when the log file is replaced by a   *)
(* new file between two successful ingestion runs, the later run processes *)
(* every line of the new file; no line is dropped because the line count   *)
(* stored for the old file was applied to the new one.                     *)
(***************************************************************************)
\* the files the game server can start after a rotation
NewFiles ==
    UNION {[1..n -> FileLines] : n \in 1..MaxFileLines}

NonBlank(lines) ==
    Cardinality({i \in 1..Len(lines) : lines[i] # BlankLine})

\* a successful run of parse_server_logs on the log file, and a second one
\* after the game server replaced the file
RotatedRun(server_id, new_file) ==
    LET first == parse_server_logs(LP, server_id, log_file, dev_mode, TRUE,
                                   now, channels)
    IN [first |-> first,
        second |-> parse_server_logs(first.lp, server_id, new_file,
                                     dev_mode, TRUE, now, channels)]

C12_NoSilentGap ==
    \A s \in Servers : \A new_file \in NewFiles :
        log_file # <<>>
        => RotatedRun(s, new_file).second.processed_lines >= NonBlank(new_file)

(***************************************************************************)
(* C13  No false positive of the reset detection: _detect_file_reset does  *)
(* not return RESET when the size is at least 80% of the stored size and   *)
(* the line count at least 10% of the stored line count, and it returns    *)
(* CONTINUE when no state is stored for the server.                        *)
(***************************************************************************)
StoredFor(server_id) == file_states[sftp_server_key(server_id)]

\* size and line count decreased by less than the margins, or not at all
WithinMargins(server_id) ==
    /\ 10 * reset_size >= 8 * StoredFor(server_id).file_size
    /\ 10 * Len(log_file) >= StoredFor(server_id).line_count

C13_NoFalsePositive ==
    \A s \in Servers :
        reset_detected = "RESET"
        => /\ sftp_server_key(s) \in DOMAIN file_states
           /\ ~WithinMargins(s)

\* the claim as stated: no RESET either when the size did not decrease
C13_NoResetOnGrowth ==
    \A s \in Servers :
        reset_detected = "RESET"
        => /\ sftp_server_key(s) \in DOMAIN file_states
           /\ ~WithinMargins(s)
           /\ reset_size < StoredFor(s).file_size

\* a file that shrank by less than 20%, whose stored last line is not the
\* line the detection looks at, is continued
C13_Witness ==
    \E s \in Servers :
        /\ sftp_server_key(s) \in DOMAIN file_states
        /\ StoredFor(s).last_line # BlankLine
        /\ log_file # <<>>
        /\ log_file[1] # StoredFor(s).last_line
        /\ reset_size < StoredFor(s).file_size
        /\ WithinMargins(s)
        /\ reset_detected = "CONTINUE"

(***************************************************************************)
(* C14  Rotation reset: whenever _detect_file_reset declares a reset for   *)
(* the text an ingestion run fetches, the run does not apply the stored    *)
(* line count: it processes every line of the text from the first one, as  *)
(* a run without stored file state does, and records the state of the new  *)
(* text.                                                                   *)
(***************************************************************************)
\* the LogParser without stored file states
Forgetful == [LP EXCEPT !.file_states = EmptyMap]

\* the run of the entry point that consults the file state tracker
TrackedRun(lp, server_id, file) ==
    IF dev_mode
    THEN parse_dev_logs(lp, server_id, file, TRUE, now, channels)
    ELSE parse_server_logs(lp, server_id, file, FALSE, TRUE, now, channels)

\* the key and the size the tracker is asked with
TrackedKey(server_id) ==
    IF dev_mode THEN get_server_status_key(server_id)
    ELSE sftp_server_key(server_id)

ResetDeclared(server_id, file) ==
    detect_file_reset(file_states, TrackedKey(server_id), file_size(file), file)

C14_RotationReset ==
    \A s \in Servers : \A new_file \in TrackFiles :
        ResetDeclared(s, new_file)
        => LET run == TrackedRun(LP, s, new_file)
           IN /\ run.processed_lines = TrackedRun(Forgetful, s, new_file).processed_lines
              /\ run.processed_lines >= NonBlank(new_file)
              /\ run.lp.file_states[TrackedKey(s)].line_count = Len(new_file)

\* two lines are stored and a smaller file of two lines, the first of them
\* not the stored last line, is declared a reset and processed whole
C14_Witness ==
    \E s \in Servers : \E new_file \in TrackFiles :
        /\ TrackedKey(s) \in DOMAIN file_states
        /\ file_states[TrackedKey(s)].line_count = 2
        /\ Len(new_file) = 2
        /\ new_file[2] # BlankLine
        /\ ResetDeclared(s, new_file)
        /\ TrackedRun(LP, s, new_file).processed_lines = 2

(***************************************************************************)
(* C15  Cold start is silent but complete: a run whose window has more     *)
(* than 1000 lines leaves every player in the state, and the server with   *)
(* the counts, that feeding the lines of the window to the connection      *)
(* state machine gives, and it delivers no notification.                   *)
(***************************************************************************)
\* the text a run of parse_server_logs gets for the log file
Window(server_id) ==
    IF dev_mode THEN get_dev_log_content(log_file, TRUE)
    ELSE get_sftp_log_content(file_states, server_id, log_file, TRUE).content

IsColdStart(server_id) ==
    /\ ~not_content(Window(server_id))
    /\ Len(Window(server_id).lines) > cold_start_threshold

\* the lines that a pattern of the connection state machine matches
ConnectionLines(lines) ==
    SelectSeq(lines, LAMBDA l : l \in Lines /\ l.kind # "unmatched"
                                 /\ l.kind # "mission_ready")

\* the connection state machine after the lines, with no channel to notify
RECURSIVE FeedAll(_, _, _)
FeedAll(cp, lines, server_key) ==
    IF lines = <<>> THEN cp
    ELSE FeedAll(parse_connection_event(cp, Head(lines), server_key, now, {}).cp,
                 Tail(lines), server_key)

CurrentStates(cp, server_key) ==
    [p \in DOMAIN StatesAt(cp, server_key) |->
        StatesAt(cp, server_key)[p].current_state]

C15_ColdStartSilentComplete ==
    \A s \in Servers :
        IsColdStart(s)
        => LET key == get_server_status_key(s)
               run == parse_server_logs(LP, s, log_file, dev_mode, TRUE,
                                        now, channels)
               fed == FeedAll(CP, ConnectionLines(Window(s).lines), key)
           IN /\ CurrentStates(run.lp.cp, key) = CurrentStates(fed, key)
              /\ get_server_stats(run.lp.cp, key) = get_server_stats(fed, key)
              /\ run.lp.cp.notifications = notifications

(***************************************************************************)
(* C16  A malformed line never aborts the batch: a line that no pattern    *)
(* matches, or whose fields cannot be extracted, yields no event, and the  *)
(* other lines of the window are still processed, on the hot path and on   *)
(* the cold path: the run finds one event for every line of its window     *)
(* that is well formed and matches a pattern.                              *)
(***************************************************************************)
\* the lines of a cold window that match a pattern of _analyze_line and
\* whose groups can be read
ColdEventLines(lines) ==
    SelectSeq(lines, LAMBDA l : /\ analyze_line_branch(l) # NoEvent
                                /\ ~analyze_line_raises(l))

\* the lines of a hot window that match a pattern of log_patterns
HotEventLines(lines) ==
    SelectSeq(lines, LAMBDA l : l # BlankLine /\ log_patterns_match(l) # NoEvent)

C16_MalformedNeverAborts ==
    \A s \in Servers :
        LET w == Window(s)
            run == parse_server_logs(LP, s, log_file, dev_mode, TRUE,
                                     now, channels)
        IN (~not_content(w) /\ ~blank_content(w))
           => IF IsColdStart(s)
              THEN run.new_events = Len(ColdEventLines(w.lines))
              ELSE /\ run.new_events = Len(HotEventLines(w.lines))
                   /\ run.processed_lines = Len(w.lines)

(***************************************************************************)
(* C17: ingestion is serialized per server.  At no time are two calls of   *)
(* parse_server_logs for the same server in progress, whoever the callers  *)
(* are: a call that has started holds the server until it has recorded the *)
(* file state, or has returned without a text.                             *)
(***************************************************************************)
InProgress(task) == tasks[task].pc # "idle"

C17_IngestionSerialized ==
    \A a, b \in Tasks :
        (a # b /\ InProgress(a) /\ InProgress(b))
            => tasks[a].server_id # tasks[b].server_id


(***************************************************************************)
(* C18: a failed fetch is isolated.  A run of parse_server_logs whose      *)
(* fetch returns no content leaves every stored file state (file_size,     *)
(* line_count, last_line) and the player connection states as they were,   *)
(* and the successful run that follows it processes what it would have     *)
(* processed without the failure, from the same stored line count.         *)
(***************************************************************************)
FailedRun(server_id) ==
    parse_server_logs(LP, server_id, log_file, dev_mode, FALSE, now, channels)

FetchedRun(lp, server_id) ==
    parse_server_logs(lp, server_id, log_file, dev_mode, TRUE, now, channels)

C18_FailedFetchIsolated ==
    \A s \in Servers :
        LET failed == FailedRun(s)
        IN /\ failed.lp.file_states = file_states
           /\ failed.lp.cp.player_states = player_states
           /\ failed.processed_lines = 0
           /\ FetchedRun(failed.lp, s) = FetchedRun(LP, s)

\* one line is stored for the SFTP key and a player is tracked; the file has
\* a second line, which the run after the failed one processes alone
C18_Witness ==
    \E s \in Servers :
        /\ ~dev_mode
        /\ sftp_server_key(s) \in DOMAIN file_states
        /\ file_states[sftp_server_key(s)].line_count = 1
        /\ Len(log_file) = 2
        /\ log_file[2] # BlankLine
        /\ StatesAt(CP, get_server_status_key(s)) # EmptyMap
        /\ FailedRun(s).lp = LP
        /\ FetchedRun(FailedRun(s).lp, s).processed_lines = 1

(***************************************************************************)
(* C19: restart round trip.  The file states written by                    *)
(* _save_persistent_state and read back by _load_persistent_state hold,    *)
(* for every key that had a state, the same file_size, line_count and last *)
(* line, so that the first run of the new process processes the lines that *)
(* a run of the old process would have processed: those beyond the saved   *)
(* line count.                                                             *)
(***************************************************************************)
Restored == load_persistent_state(save_persistent_state(file_states, parser_states))

C19_RestartRoundTrip ==
    /\ \A k \in DOMAIN file_states :
          /\ k \in DOMAIN Restored
          /\ state_get(Restored[k], "file_size", 0) = file_states[k].file_size
          /\ state_get(Restored[k], "line_count", 0)
                 = state_get(file_states[k], "line_count", 0)
          /\ state_get(Restored[k], "last_line", BlankLine) = file_states[k].last_line
    /\ \A s \in Servers :
          TrackedRun([LP EXCEPT !.file_states = Restored], s, log_file).processed_lines
              = TrackedRun(LP, s, log_file).processed_lines

(***************************************************************************)
(* C20: single reset path.  The administrative reset leaves the player     *)
(* table of the server empty and both counts at 0, and a run that declares *)
(* a log rotation RESET goes through the same reset: its player table and  *)
(* counts are those of the same run started on the reset state machine, so *)
(* no record of the time before the rotation survives it.                  *)
(***************************************************************************)
CountsAt(cp, server_key) ==
    IF server_key \in DOMAIN cp.server_counts
    THEN cp.server_counts[server_key]
    ELSE [queue_count |-> 0, player_count |-> 0]

AfterReset(server_id) ==
    [LP EXCEPT !.cp = reset_server_counts(CP, get_server_status_key(server_id))]

C20_SingleResetPath ==
    \A s \in Servers :
        LET k == get_server_status_key(s)
        IN /\ StatesAt(AfterReset(s).cp, k) = EmptyMap
           /\ CountsAt(AfterReset(s).cp, k) = [queue_count |-> 0, player_count |-> 0]
           /\ \A new_file \in TrackFiles :
                 ResetDeclared(s, new_file)
                 => LET run == TrackedRun(LP, s, new_file)
                        clean == TrackedRun(AfterReset(s), s, new_file)
                    IN /\ StatesAt(run.lp.cp, k) = StatesAt(clean.lp.cp, k)
                       /\ CountsAt(run.lp.cp, k) = CountsAt(clean.lp.cp, k)

(***************************************************************************)
(* C21: max_players tracks the last observed value.  The value a label     *)
(* update of a server uses is the value of the last server-max-players     *)
(* line processed for it, or the default while none was processed: such a  *)
(* line sets it, and no other line, no cleanup and no reset changes it.    *)
(***************************************************************************)
\* self.server_counts[server_key].get('max_players', 50)
MaxPlayersUsed(cp, server_key) ==
    IF server_key \in DOMAIN cp.server_counts
       /\ "max_players" \in DOMAIN cp.server_counts[server_key]
    THEN cp.server_counts[server_key].max_players
    ELSE default_max_players

C21_MaxPlayersLastObserved ==
    \A k \in ServerKeys :
        /\ \A line \in FedLines :
              LET after == Fed(line, k).cp
              IN IF line.kind = "server_max_players"
                 THEN /\ MaxPlayersUsed(after, k) = line.max
                      /\ "playercountvc" \in channels
                             => after.voice_label[k].max_players = line.max
                 ELSE MaxPlayersUsed(after, k) = MaxPlayersUsed(CP, k)
        /\ MaxPlayersUsed(cleanup_old_states(CP, now), k) = MaxPlayersUsed(CP, k)
        /\ \A k2 \in ServerKeys :
              MaxPlayersUsed(reset_server_counts(CP, k2), k) = MaxPlayersUsed(CP, k)

(***************************************************************************)
(* C22: killfeed de-duplication.  Whatever the cycles and the files were,  *)
(* no raw CSV line has more than one stored kill event, and every player   *)
(* has as many deaths and suicides counted as there are stored events with *)
(* that player as the victim: a line is processed at most once.            *)
(***************************************************************************)
EventsOfLine(line) ==
    {i \in DOMAIN kill_events : kill_events[i].raw_line = line}

EventsOfVictim(name) ==
    {i \in DOMAIN kill_events : kill_events[i].victim = name}

C22_KillfeedDedup ==
    /\ \A line \in CsvLines : Cardinality(EventsOfLine(line)) <= 1
    /\ \A name \in DOMAIN pvp_data :
          pvp_data[name].deaths + pvp_data[name].suicides
              = Cardinality(EventsOfVictim(name))

\* the file holds the same kill twice and two cycles have read it: one
\* event is stored and the victim has one death
C22_Witness ==
    /\ runs = 2
    /\ Len(csv_file) = 2
    /\ csv_file[1] = csv_file[2]
    /\ \E k \in DOMAIN parsed_lines : csv_file[1] \in parsed_lines[k]
    /\ Len(kill_events) = 1
    /\ \E name \in DOMAIN pvp_data : pvp_data[name].deaths = 1

(***************************************************************************)
(* C23: kill statistics update.  Processing a kill that is not a suicide   *)
(* adds 1 to the kills and to the current_streak of the killer, adds 1 to  *)
(* the deaths of the victim and sets the victim's current_streak to 0, and *)
(* creates or changes the document of no other player.                     *)
(***************************************************************************)
\* the statistics of a player, those of a new document when there is none
StatsOf(db, name) == IF name \in DOMAIN db THEN db[name] ELSE NewStats

\* the statistics after the kill of the line is processed in this state
AfterKill(line) ==
    process_kill_event(KF, parse_csv_line(line), get_server_status_key("s1"),
                       channels).pvp_data

IsKill(line) == parse_csv_line(line).ok /\ ~parse_csv_line(line).is_suicide

C23_KillStatistics ==
    \A line \in CsvLines :
        IsKill(line)
        => /\ StatsOf(AfterKill(line), line.killer).kills
                  = StatsOf(pvp_data, line.killer).kills + 1
           /\ StatsOf(AfterKill(line), line.killer).current_streak
                  = StatsOf(pvp_data, line.killer).current_streak + 1
           /\ StatsOf(AfterKill(line), line.victim).deaths
                  = StatsOf(pvp_data, line.victim).deaths + 1
           /\ StatsOf(AfterKill(line), line.victim).current_streak = 0
           /\ \A name \in DOMAIN AfterKill(line) \ {line.killer, line.victim} :
                  name \in DOMAIN pvp_data /\ AfterKill(line)[name] = pvp_data[name]

(***************************************************************************)
(* C24: suicide classification.  parse_csv_line marks a record a suicide   *)
(* exactly when the killer is the victim or the weapon is, in any case of  *)
(* the letters, a self-inflicted marker: the relocation suicide or         *)
(* falling.  A relocation suicide gets the weapon "Menu Suicide", and a    *)
(* fall is tagged as falling and is a suicide.                             *)
(***************************************************************************)
\* the lines with both names, over the weapons and distances of the model
NamedCsvLines ==
    {CsvLine(k, v, w, d) :
        k \in {"Al", "Bo"}, v \in {"Al", "Bo"},
        w \in {"AK", "Suicide_by_relocation", "suicide_by_relocation",
               "falling", "Falling"},
        d \in float_texts \cup {"", "N/A", "abc"}}

SelfInflicted(weapon) == lower(weapon) \in {"suicide_by_relocation", "falling"}

C24_SuicideClassification ==
    \A line \in NamedCsvLines \cup {kill_events[i].raw_line : i \in DOMAIN kill_events} :
        LET kill_data == parse_csv_line(line)
        IN /\ kill_data.is_suicide
                  <=> (line.killer = line.victim \/ SelfInflicted(line.weapon))
           /\ lower(line.weapon) = "suicide_by_relocation"
                  => kill_data.weapon = "Menu Suicide"
           /\ lower(line.weapon) = "falling"
                  => kill_data.weapon = "Falling" /\ kill_data.is_suicide

(***************************************************************************)
(* C25: distance clamping.  The distance of every stored kill event and    *)
(* the distance that enters the statistics lie in [0, 5000]: "99999" is    *)
(* stored as 5000, a negative distance as 0, and an absent, empty or       *)
(* non-numeric distance ("abc") as 0.                                      *)
(***************************************************************************)
\* the event add_kill_event stores for a line
StoredEvent(line) ==
    add_kill_event(<<>>, parse_csv_line(line))[1]

C25_DistanceClamped ==
    /\ \A i \in DOMAIN kill_events :
           /\ kill_events[i].distance \in 0..5000
           /\ kill_events[i].distance = StoredEvent(kill_events[i].raw_line).distance
    /\ \A line \in {CsvLine("Al", "Bo", "AK", d) :
                          d \in float_texts \cup {"", "N/A", "abc"}} :
           /\ StoredEvent(line).distance \in 0..5000
           /\ line.distance = "99999" => StoredEvent(line).distance = 5000
           /\ line.distance = "-5" => StoredEvent(line).distance = 0
           /\ line.distance \in {"", "N/A", "abc"} => StoredEvent(line).distance = 0
           /\ line.distance = "300" => StoredEvent(line).distance = 300
    /\ \A name \in DOMAIN pvp_data \cup {"Al"}, text \in float_texts :
           LET after == increment_player_kill(pvp_data, name, float(text))[name]
           IN /\ after.total_distance - StatsOf(pvp_data, name).total_distance
                     \in 0..5000
              /\ after.personal_best_distance \in 0..5000

C25_Witness ==
    \E i \in DOMAIN kill_events :
        /\ kill_events[i].raw_line.distance = "99999"
        /\ kill_events[i].distance = 5000

(***************************************************************************)
(* C26: KDR consistency.  After any sequence of processed kill events the  *)
(* stored kdr of every player is kills / deaths when deaths > 0 and kills  *)
(* when deaths = 0, of the kills and deaths stored with it; and a kill or  *)
(* a death counted for any player keeps it so.                             *)
(***************************************************************************)
\* kdr = kills / deaths, or kills, as an equation of whole numbers
KdrConsistent(doc) ==
    IF doc.deaths > 0 THEN doc.kdr.num * doc.deaths = doc.kills * doc.kdr.den
    ELSE doc.kdr.num = doc.kills * doc.kdr.den

C26_KdrConsistent ==
    /\ \A name \in DOMAIN pvp_data : KdrConsistent(pvp_data[name])
    /\ \A name \in DOMAIN pvp_data \cup {"Al"} :
           /\ KdrConsistent(increment_player_kill(pvp_data, name, 120)[name])
           /\ KdrConsistent(increment_player_death(pvp_data, name)[name])
           /\ KdrConsistent(
                  increment_player_kill(increment_player_death(pvp_data, name),
                                        name, 120)[name])

\* a player with one death gets another death and then a kill: 1 / 2
C26_Witness ==
    \E name \in DOMAIN pvp_data :
        /\ pvp_data[name].deaths = 1
        /\ increment_player_kill(increment_player_death(pvp_data, name),
                                 name, 120)[name].kdr = [num |-> 1, den |-> 2]

(***************************************************************************)
(* C27: personal-best distance.  A kill raises the personal_best_distance  *)
(* of the killer only when its clamped distance is strictly greater than   *)
(* the stored value: after a kill it is the greater of the two, the first  *)
(* recorded kill of a player included, and after any sequence of kills it  *)
(* is at least the distance of every stored kill of the player.            *)
(***************************************************************************)
C27_PersonalBest ==
    /\ \A name \in DOMAIN pvp_data \cup {"Al"}, text \in float_texts :
           LET stored == StatsOf(pvp_data, name).personal_best_distance
               d == clamp_distance(float(text))
           IN increment_player_kill(pvp_data, name, float(text))[name]
                  .personal_best_distance = IF d > stored THEN d ELSE stored
    /\ \A i \in DOMAIN kill_events :
           ~kill_events[i].is_suicide
           => StatsOf(pvp_data, kill_events[i].killer).personal_best_distance
                  >= kill_events[i].distance

(***************************************************************************)
(* C28: the ConnectionLifecycleParser accepts a player_joined line for an  *)
(* id that is OFFLINE (no queue_join was seen) or DISCONNECTED: the player *)
(* becomes JOINED and the player_count of the server rises by one.         *)
(***************************************************************************)
LifecycleState(lc, server_key, player_id) ==
    IF server_key \in DOMAIN lc.player_states
       /\ player_id \in DOMAIN lc.player_states[server_key]
    THEN lc.player_states[server_key][player_id].current_state
    ELSE "OFFLINE"

LifecyclePlayerCount(lc, server_key) ==
    IF server_key \in DOMAIN lc.server_counts
    THEN lc.server_counts[server_key].player_count ELSE 0

AfterJoined(server_key, player_id) ==
    parse_lifecycle_event(LC, Line("player_joined", player_id, None, 0),
                          server_key, None, now, channels)

C28_JoinWithoutQueue ==
    \A k \in ServerKeys, p \in Players :
        LifecycleState(LC, k, p) \in {"OFFLINE", "DISCONNECTED"}
        => /\ LifecycleState(AfterJoined(k, p), k, p) = "JOINED"
           /\ LifecyclePlayerCount(AfterJoined(k, p), k)
                  = LifecyclePlayerCount(LC, k) + 1

(***************************************************************************)
(* C29: tail-window rule of the reset detection.  When neither 90% rule    *)
(* applies, _detect_file_reset returns RESET if and only if the new size   *)
(* is below 80% of the stored size and the stored last line does not occur *)
(* among the last 50 lines of the new content; a stored last line that is  *)
(* anywhere in that tail gives CONTINUE.                                   *)
(***************************************************************************)
\* neither the size nor the line count fell by 90%
NoNinetyRule(server_id) ==
    /\ ~(StoredFor(server_id).file_size > 0
         /\ 10 * reset_size < StoredFor(server_id).file_size)
    /\ ~(StoredFor(server_id).line_count > 0
         /\ 10 * Len(log_file) < StoredFor(server_id).line_count)

\* the stored last line is one of the last 50 lines of the new content
LastLineInTail(server_id) ==
    \E i \in DOMAIN log_file :
        /\ i > Len(log_file) - tail_window
        /\ str_in(StoredFor(server_id).last_line, log_file[i])

C29_TailWindowRule ==
    \A s \in Servers :
        (/\ reset_detected # None
         /\ sftp_server_key(s) \in DOMAIN file_states
         /\ StoredFor(s).last_line # BlankLine
         /\ NoNinetyRule(s))
        => (reset_detected = "RESET"
              <=> /\ 10 * reset_size < 8 * StoredFor(s).file_size
                  /\ ~LastLineInTail(s))

(***************************************************************************)
(* C30: offset guard.  When the stored line count exceeds the number of    *)
(* lines of the fetched content, the run treats it as a full reset: it     *)
(* processes every line of the content from the first one, as a run        *)
(* without stored file state does, never an empty or partial window.       *)
(***************************************************************************)
\* the stored line count is past the end of the file
PastTheEnd(server_id, file) ==
    /\ TrackedKey(server_id) \in DOMAIN file_states
    /\ state_get(file_states[TrackedKey(server_id)], "line_count", 0) > Len(file)

C30_OffsetGuard ==
    \A s \in Servers : \A new_file \in TrackFiles :
        PastTheEnd(s, new_file)
        => /\ TrackedRun(LP, s, new_file).processed_lines
                  = TrackedRun(Forgetful, s, new_file).processed_lines
           /\ TrackedRun(LP, s, new_file).processed_lines >= NonBlank(new_file)

\* two lines are stored; a file of one line that no rule declares a reset
\* is processed from its first line
C30_Witness ==
    \E s \in Servers : \E new_file \in TrackFiles :
        /\ PastTheEnd(s, new_file)
        /\ ~ResetDeclared(s, new_file)
        /\ new_file[1] # BlankLine
        /\ TrackedRun(LP, s, new_file).processed_lines = Len(new_file)

(***************************************************************************)
(* C31: single classification per line.  A line the connection state       *)
(* machine consumes (queue_join, beacon_join, player_joined, a disconnect, *)
(* max-players) is not matched against the table of log_patterns as well:  *)
(* parse_log_line returns no event for it; and a line that gives an event  *)
(* gives the one of the first pattern that matches.                        *)
(***************************************************************************)
\* the line has the shape of a pattern of the connection parser
Consumed(line) ==
    line # BlankLine
    /\ line.kind \in IdLineKinds \cup {"queue_join", "server_max_players"}

C31_SingleClassification ==
    \A line \in Lines \cup {BlankLine}, k \in ServerKeys :
        /\ Consumed(line)
               => parse_log_line(LP, line, k, now, channels).event = NoEvent
        /\ parse_log_line(LP, line, k, now, channels).event
               \in {NoEvent, log_patterns_match(line)}

(***************************************************************************)
(* C32: bounded retry of the remote fetch.  A call of get_sftp_connection  *)
(* makes at most 3 connection attempts, each within the timeout, with a    *)
(* backoff of 1 and then 2 seconds between them; a call whose third        *)
(* attempt fails returns no connection; and every call returns.            *)
(***************************************************************************)
InCall == sftp_call.pc \in {"connect", "sleep"}

BoundedAttempts ==
    /\ sftp_call.attempts <= connect_attempts
    /\ sftp_call.elapsed <= connect_attempts * connect_timeout + sftp_call.slept
    /\ sftp_call.pc = "connect"
           => /\ sftp_call.attempts = sftp_call.attempt
              /\ sftp_call.slept = 2 ^ sftp_call.attempt - 1
    /\ sftp_call.pc = "sleep" => sftp_call.attempts = sftp_call.attempt + 1
    /\ (sftp_call.pc = "returned" /\ sftp_call.attempts = connect_attempts)
           => (sftp_call.conn = None <=> pool_key \notin DOMAIN sftp_pool)

C32_BoundedRetry == []BoundedAttempts /\ (InCall ~> sftp_call.pc = "returned")

\* three attempts timed out, the call slept 1 + 2 seconds and returned None
C32_Witness ==
    /\ sftp_call.pc = "returned"
    /\ sftp_call.conn = None
    /\ sftp_call.attempts = connect_attempts
    /\ sftp_call.slept = 3
    /\ sftp_call.elapsed = 93

(***************************************************************************)
(* C33: order of the name sources.  A join notification of a player whose  *)
(* name was captured by an earlier queue_join line carries that name, even *)
(* when the recent kill and death records hold a name for the same id: the *)
(* earlier source of the order takes precedence.                           *)
(***************************************************************************)
KillRecordNames == Names \cup {"Rob"}

QueueJoinName(lc, server_key, player_id) ==
    IF server_key \in DOMAIN lc.player_states
       /\ player_id \in DOMAIN lc.player_states[server_key]
    THEN lc.player_states[server_key][player_id].player_name
    ELSE None

JoinNotifications(server_key, player_id, db_name) ==
    parse_lifecycle_event(LC, Line("player_joined", player_id, None, 0),
                          server_key, db_name, now, channels).notifications

NamedAs(sent, name) ==
    Len(sent) > Len(notifications) => sent[Len(sent)].connection_id = name

C33_NameResolutionOrder ==
    \A k \in ServerKeys, p \in Players, d \in KillRecordNames \cup {None} :
        QueueJoinName(LC, k, p) # None
        => NamedAs(JoinNotifications(k, p, d), QueueJoinName(LC, k, p))

(***************************************************************************)
(* C34: the suppression window is anchored to the last applied event.  A   *)
(* line changes last_event_time and last_event_type of a record only when  *)
(* its transition is applied, and then to the time and the event of that   *)
(* transition; a suppressed or a refused line leaves both as they were, so *)
(* both are always those of the last transition the record lists.          *)
(***************************************************************************)
SameWindow(a, b) ==
    a.last_event_time = b.last_event_time /\ a.last_event_type = b.last_event_type

Anchored(ps) ==
    IF ps.state_transitions = <<>>
    THEN ps.last_event_type = None
    ELSE /\ ps.last_event_time
                = ps.state_transitions[Len(ps.state_transitions)].timestamp
         /\ ps.last_event_type
                = ps.state_transitions[Len(ps.state_transitions)].event_type

\* the times at which the next line can be read: at once, and at the end of
\* the window of an event applied now
LaterTimes == {now, now + time_threshold - 1}

FedAt(cp, line, server_key, t) ==
    parse_connection_event(cp, line, server_key, t, channels)

\* a line of the same shape, read when the window of the record has passed,
\* is not suppressed
WindowEnds(cp, line, server_key, ps) ==
    FedAt(cp, line, server_key, ps.last_event_time + time_threshold).diag
        # "duplicate"

WindowKept(before, r, after, line, server_key, t) ==
    \A p \in DOMAIN before :
        /\ p \in DOMAIN after
        /\ Anchored(after[p])
        /\ IF r.diag = "applied" /\ p = line.id
           THEN /\ after[p].last_event_time = t
                /\ Len(after[p].state_transitions)
                       = Len(before[p].state_transitions) + 1
           ELSE SameWindow(after[p], before[p])
        /\ (p = line.id /\ r.diag # "applied")
               => WindowEnds(r.cp, line, server_key, before[p])

C34_WindowAnchored ==
    \A k \in ServerKeys : \A line \in IdLines : \A t \in LaterTimes :
        WindowKept(StatesAt(CP, k), FedAt(CP, line, k, t),
                   StatesAt(FedAt(CP, line, k, t).cp, k), line, k, t)

\* a queue_join repeated inside the window of the applied one, after the
\* time it was applied, and a player_joined repeated after the window,
\* which is refused
C34_Witness ==
    \E k \in ServerKeys : \E p, q \in DOMAIN StatesAt(CP, k) :
        /\ StatesAt(CP, k)[p].last_event_type = "queue_join"
        /\ StatesAt(CP, k)[p].last_event_time = now
        /\ FedAt(CP, Line("queue_join", p, "Bob", 0), k,
                 now + time_threshold - 1).diag = "duplicate"
        /\ StatesAt(CP, k)[q].last_event_type = "player_joined"
        /\ now >= StatesAt(CP, k)[q].last_event_time + time_threshold
        /\ Fed(Line("player_joined", q, None, 0), k).diag = "invalid"

(***************************************************************************)
(* C35: at most one leave notification per session.  A line adds at most   *)
(* one leave notification, only for its own player, and only when it takes *)
(* that player from JOINED to DISCONNECTED; a disconnect line and a beacon *)
(* disconnect line that arrive for the same JOINED session, in either      *)
(* order and at any distance, add one leave notification together.         *)
(***************************************************************************)
LeaveCount(sent, server_key, player_id) ==
    Cardinality({i \in DOMAIN sent :
                    /\ sent[i].type = "player_leave"
                    /\ sent[i].server_key = server_key
                    /\ sent[i].player_id = player_id})

StateOf(states, player_id) ==
    IF player_id \in DOMAIN states THEN states[player_id].current_state
    ELSE "OFFLINE"

DisconnectLines(player_id) == {Line(kind, player_id, None, 0) : kind \in DisconnectKinds}

\* what one line adds
LeaveGated(r, line, server_key, player_id) ==
    LeaveCount(r.cp.notifications, server_key, player_id)
        # LeaveCount(notifications, server_key, player_id)
    => /\ LeaveCount(r.cp.notifications, server_key, player_id)
              = LeaveCount(notifications, server_key, player_id) + 1
       /\ player_id = line.id
       /\ line.kind \in DisconnectKinds
       /\ StateOf(StatesAt(CP, server_key), player_id) = "JOINED"
       /\ StateOf(StatesAt(r.cp, server_key), player_id) = "DISCONNECTED"

\* what two disconnect lines of one session add
OneLeave(r, server_key, player_id) ==
    LeaveCount(r.cp.notifications, server_key, player_id)
        <= LeaveCount(notifications, server_key, player_id) + 1

C35_OneLeavePerSession ==
    \A k \in ServerKeys : \A p \in Players :
        /\ \A line \in IdLines : LeaveGated(Fed(line, k), line, k, p)
        /\ StateOf(StatesAt(CP, k), p) = "JOINED"
           => \A first, second \in DisconnectLines(p) : \A t \in LaterTimes :
                  OneLeave(FedAt(Fed(first, k).cp, second, k, t), k, p)

\* the session of a named player was ended by a disconnect line, which was
\* notified, and the beacon disconnect line that follows adds nothing
C35_Witness ==
    \E k \in ServerKeys : \E p \in DOMAIN StatesAt(CP, k) :
        /\ StatesAt(CP, k)[p].current_state = "DISCONNECTED"
        /\ StatesAt(CP, k)[p].last_event_type = "disconnect"
        /\ LeaveCount(notifications, k, p) = 1
        /\ Fed(Line("beacon_disconnect", p, None, 0), k).cp.notifications
               = notifications

(***************************************************************************)
(* C36: the idle cleanup sweep is count-neutral.  cleanup_old_states       *)
(* removes exactly the DISCONNECTED records whose last event is older than *)
(* the cutoff, changes no record it keeps, leaves the counts as they were, *)
(* and after it queue_count and player_count are the numbers of QUEUED and *)
(* JOINED records that a scan of the remaining records finds.              *)
(***************************************************************************)
Swept == cleanup_old_states(CP, now)

OldDisconnected(ps) ==
    /\ ps.current_state = "DISCONNECTED"
    /\ ps.last_event_time < now - max_age_hours * 3600

SweepFrame(server_key) ==
    /\ DOMAIN Swept.player_states[server_key]
           = {p \in DOMAIN player_states[server_key] :
                 ~OldDisconnected(player_states[server_key][p])}
    /\ \A p \in DOMAIN Swept.player_states[server_key] :
           Swept.player_states[server_key][p] = player_states[server_key][p]
    /\ Swept.server_counts = server_counts
    /\ Swept.notifications = notifications
    /\ Swept.voice_label = voice_label

CountsAreScan(cp, server_key) ==
    server_key \in DOMAIN cp.server_counts
    => /\ cp.server_counts[server_key].queue_count
              = CountInState(cp.player_states[server_key], "QUEUED")
       /\ cp.server_counts[server_key].player_count
              = CountInState(cp.player_states[server_key], "JOINED")

C36_CleanupCountNeutral ==
    /\ DOMAIN Swept.player_states = DOMAIN player_states
    /\ \A k \in DOMAIN player_states :
           SweepFrame(k) /\ CountsAreScan(Swept, k)

(***************************************************************************)
(* C37: per-server isolation.  A line, a reset or a max-players update for *)
(* one server_key leaves the player records, the counts and max_players    *)
(* stored under another server_key as they were, and a write of the file   *)
(* state of one server_key leaves the file state of another one as it was. *)
(***************************************************************************)
\* what the parser holds under a key: the records, and the counts with
\* max_players
Under(cp, server_key) ==
    [states |-> StatesAt(cp, server_key),
     counts |-> IF server_key \in DOMAIN cp.server_counts
                THEN cp.server_counts[server_key] ELSE EmptyMap]

\* the parser after each operation for server_key
AfterOperation(cp, server_key) ==
    {FedAt(cp, line, server_key, now).cp : line \in Lines}
    \cup {reset_server_counts(cp, server_key)}
    \cup {update_server_max_players(cp, server_key, m, channels) :
            m \in MaxPlayerValues \cup {default_max_players}}

Isolated(cp, server_key, other) ==
    \A after \in AfterOperation(cp, server_key) :
        Under(after, other) = Under(cp, other)

\* the file states after a write for server_key
AfterFileState(fs, server_key) ==
    {update_file_state(fs, server_key, size, 1, line) :
        size \in {0, MaxSize}, line \in {BlankLine, Line("unmatched", None, None, 0)}}

FileIsolated(fs, server_key, other) ==
    \A after \in AfterFileState(fs, server_key) :
        /\ other \in DOMAIN after <=> other \in DOMAIN fs
        /\ other \in DOMAIN fs => after[other] = fs[other]

Dropped(b, channel_id) ==
    /\ queue_of(b.bs, channel_id) = queue_of(batch_sender, channel_id)
    /\ b.bs.processing_channels = batch_sender.processing_channels
    /\ b.tasks = batch_tasks
    /\ b.last_sent = last_sent

C38_QueueBounded ==
    \A c \in BatchChannels :
        /\ Len(queue_of(batch_sender, c)) <= max_queue_size
        /\ Len(queue_of(batch_sender, c)) = max_queue_size
               => Dropped(queue_embed(B, c, calls + 1), c)

\* a full queue, and a call later than the one of its last message
C38_Witness ==
    \E c \in BatchChannels :
        /\ Len(queue_of(batch_sender, c)) = max_queue_size
        /\ queue_of(batch_sender, c)[max_queue_size] < calls

(***************************************************************************)
(* C39: one processor per channel, and the order of the queue.  At most    *)
(* one task of _process_channel_queue is past the guard for a channel, and *)
(* it is there exactly when the channel is in processing_channels; the     *)
(* messages that wait, in the batch and behind it in the queue, are in the *)
(* order of their calls; and each message handed to channel.send is the    *)
(* oldest one that was waiting.                                            *)
(***************************************************************************)
Processors(channel_id) ==
    {i \in DOMAIN batch_tasks : /\ batch_tasks[i].channel_id = channel_id
                                /\ batch_tasks[i].pc # "created"}

LastSent(sent, channel_id) ==
    IF channel_id \in DOMAIN sent THEN sent[channel_id] ELSE 0

\* the batches of the processors of a channel, one behind the other
RECURSIVE Batches(_, _)
Batches(ts, channel_id) ==
    IF ts = <<>> THEN <<>>
    ELSE (IF Head(ts).channel_id = channel_id THEN Head(ts).batch ELSE <<>>)
         \o Batches(Tail(ts), channel_id)

\* the messages popped and not sent yet and the messages of the queue
Waiting(channel_id) ==
    Batches(batch_tasks, channel_id) \o queue_of(batch_sender, channel_id)

Increasing(seq) == \A i \in 1..(Len(seq) - 1) : seq[i] < seq[i + 1]

OneProcessor ==
    \A c \in BatchChannels :
        /\ Cardinality(Processors(c)) <= 1
        /\ c \in batch_sender.processing_channels <=> Processors(c) # {}

InOrder ==
    \A c \in BatchChannels :
        /\ Increasing(Waiting(c))
        /\ Waiting(c) # <<>> => LastSent(last_sent, c) <= Waiting(c)[1]
        /\ \A i \in Processors(c) :
               batch_tasks[i].pc \in {"send", "pause", "rate_limited", "retry"}
               <=> (batch_tasks[i].batch # <<>>
                    /\ batch_tasks[i].batch[1] = LastSent(last_sent, c))

\* the message handed to channel.send in a step is the oldest of those that
\* waited behind the one handed before
OldestFirst ==
    \A c \in BatchChannels :
        LastSent(last_sent', c) # LastSent(last_sent, c)
        => /\ Waiting(c) # <<>>
           /\ LastSent(last_sent', c)
                  = IF Waiting(c)[1] = LastSent(last_sent, c)
                    THEN Waiting(c)[2] ELSE Waiting(c)[1]

C39_OneProcessorInOrder ==
    [](OneProcessor /\ InOrder) /\ [][OldestFirst]_vars

\* the processor of a channel is at its second batch while a second task
\* made for the channel has not started and a message waits in the queue
C39_Witness ==
    \E c \in BatchChannels :
        /\ \E i \in Processors(c) : batch_tasks[i].pc = "send"
        /\ \E i \in DOMAIN batch_tasks : batch_tasks[i].pc = "created"
        /\ LastSent(last_sent, c) > batch_size
        /\ queue_of(batch_sender, c) # <<>>

(***************************************************************************)
(* C40: no message is stranded.  When the channel exists and every send    *)
(* attempt ends, a queue that holds a message has a task of                *)
(* _process_channel_queue for its channel, started or not, and every       *)
(* message of a queue is eventually out of the queue and handed to         *)
(* channel.send.                                                           *)
(***************************************************************************)
Queued(message, channel_id) ==
    \E i \in DOMAIN queue_of(batch_sender, channel_id) :
        queue_of(batch_sender, channel_id)[i] = message

NoStranded ==
    \A c \in BatchChannels :
        queue_of(batch_sender, c) # <<>>
        => \E i \in DOMAIN batch_tasks : batch_tasks[i].channel_id = c

Handed(message, channel_id) ==
    /\ ~Queued(message, channel_id)
    /\ LastSent(last_sent, channel_id) >= message

C40_NoStrandedMessage ==
    /\ []NoStranded
    /\ \A c \in BatchChannels : \A m \in 1..MaxFew :
           Queued(m, c) ~> Handed(m, c)

\* every call was made, every message was handed to channel.send, the
\* last one after an interval, and the processor has returned
C40_Witness ==
    \E c \in BatchChannels :
        /\ calls = MaxFew
        /\ LastSent(last_sent, c) = MaxFew
        /\ batch_tasks = <<>>
        /\ queue_of(batch_sender, c) = <<>>
        /\ batch_sender.processing_channels = {}

====
